---- MODULE Spec2Model ----
(***************************************************************************)
(* A model of openai_functions: the function sets (BasicFunctionSet,       *)
(* TogglableSet, UnionSkillSet) and the Conversation engine                *)
(* (generate_message, run_until_response, the rate-limit retry loop).      *)
(*                                                                         *)
(* Ten specifications share the variables:                                 *)
(*   SetSpec      the function sets under run_function / add_function /    *)
(*                remove_function;                                         *)
(*   Spec         the Conversation engine over a fixed set of functions;   *)
(*   RetrySpec    the engine with rate-limit retry budgets;                *)
(*   RunSpec      the engine with Conversation.run;                        *)
(*   ParseSpec    FunctionWrapper.__call__, FunctionWrapper.schema and the *)
(*                argument parsers;                                        *)
(*   RegSpec      a BasicFunctionSet of wrapped callables under            *)
(*                add_function, remove_function, functions_schema and      *)
(*                run_function;                                            *)
(*   NlpSpec      Wrapper.natural_language_annotated;                      *)
(*   ResponseSpec run_until_response(False) on a history that ends with a  *)
(*                tool call, with a backend that answers;                  *)
(*   LoopSpec     run_until_response with a backend that eventually        *)
(*                answers with a contentful message;                       *)
(*   FailSpec     the engine with a function whose return value cannot be  *)
(*                serialized.                                              *)
(***************************************************************************)
EXTENDS Integers, Sequences, FiniteSets, TLC

VARIABLES
    sets,       \* UnionSkillSet.sets: the child function sets, in order
    functions,  \* UnionSkillSet.functions: the local BasicFunctionSet list
    last,       \* the last function-set operation and what it did (history)
    nextUid,    \* the number of descriptors created so far (history)
    messages,   \* Conversation.messages
    pc,         \* where the engine operation in progress stands
    op,         \* the engine operation in progress (or the last one)
    retries,    \* the local variable retries of _generate_message
    requests,   \* backend requests sent by the current generate_message call
    sleeps,     \* time.sleep calls made by the current generate_message call
    sleptBefore,\* an earlier generate_message call of this operation slept
    resolved,   \* the FunctionResult the current generate_message call got
                \* from run_function_if_needed (None: no tool call was run)
    popped,     \* the message that call removed from the history, if any
    outcome,    \* how the last Conversation operation ended
    invocation  \* the last FunctionWrapper.__call__: its arguments and outcome

setVars == <<sets, functions, last, nextUid>>
engineVars == <<messages, pc, op, retries, requests, sleeps, sleptBefore, resolved,
                popped, outcome, invocation>>
vars == <<sets, functions, last, nextUid, messages, pc, op, retries, requests,
          sleeps, sleptBefore, resolved, popped, outcome, invocation>>

\* Python's None, and a value that is not None
NULL == <<>>
Some(x) == <<x>>
Get(o) == o[1]

(***************************************************************************)
(* Bounds of the model                                                     *)
(***************************************************************************)
\* descriptors ever created in a SetSpec behaviour
MaxFunctions == 3
\* length of the conversation
MaxMessages == 3
\* consecutive rate-limit failures the backend produces within one call
MaxFailures == 2
\* the largest finite retry budget a caller passes
MaxRetries == 1
\* how often the engine runs the tool call of one message
MaxRuns == 2
\* the largest number an argument or a return value holds
MaxInt == 9
\* add_function calls in a RegSpec behaviour
MaxRegistered == 2

(***************************************************************************)
(* Exceptions.  The package has two unrelated classes that are both named  *)
(* FunctionNotFoundError: the one of openai_functions/exceptions.py, which *)
(* basic_set.py and togglable_set.py raise, and the one of                 *)
(* openai_functions/functions/exceptions.py, which union.py suppresses.    *)
(***************************************************************************)
NoError == "no error"
FunctionNotFoundError == "openai_functions.exceptions.FunctionNotFoundError"
FunctionsFunctionNotFoundError == "openai_functions.functions.exceptions.FunctionNotFoundError"
InvalidJsonError == "openai_functions.exceptions.InvalidJsonError"
NonSerializableOutputError == "openai_functions.exceptions.NonSerializableOutputError"
BrokenSchemaError == "BrokenSchemaError"
RateLimitError == "openai.error.RateLimitError"

\* the class basic_set.py and togglable_set.py import and raise
RaisedNotFound == FunctionNotFoundError
\* the class union.py imports and hands to contextlib.suppress
SuppressedNotFound == FunctionsFunctionNotFoundError

(***************************************************************************)
(* Function descriptors, calls and results                                 *)
(***************************************************************************)
FunctionNames == {"f", "g"}
EnableName == "enable"
UnknownName == "nope"
CallNames == FunctionNames \cup {EnableName, UnknownName}

\* FunctionCall.arguments: a JSON object text, or a text json.loads rejects
ValidArguments == "{}"
InvalidArguments == "{"
Arguments == {ValidArguments, InvalidArguments}
\* a JSON object that names a parameter the callable does not have
MismatchedArguments == "{\"x\": 1}"

\* WrapperConfig: save_return, serialize, remove_call, interpret_as_response
WrapperConfig(save_return, serialize, remove_call, interpret_as_response) ==
    [save_return |-> save_return, serialize |-> serialize,
     remove_call |-> remove_call, interpret_as_response |-> interpret_as_response]

DefaultConfig == WrapperConfig(TRUE, TRUE, FALSE, FALSE)

\* every combination of save_return, remove_call and interpret_as_response
AllConfigs ==
    {WrapperConfig(s, TRUE, r, i) : s \in BOOLEAN, r \in BOOLEAN, i \in BOOLEAN}

\* FunctionWrapper: a callable with a name and a config; uid tells two
\* descriptors of the same name apart
FunctionWrapper(uid, name, config) ==
    [uid |-> uid, name |-> name, save_return |-> config.save_return,
     serialize |-> config.serialize, remove_call |-> config.remove_call,
     interpret_as_response |-> config.interpret_as_response]

\* FunctionWrapper.schema: name, description and the parameters derived from
\* the callable (fn names the callable they are derived from)
FunctionSchema(function) ==
    [name |-> function.name, description |-> NULL, fn |-> function.uid]

\* the value the callable returns
ReturnValue == "done"
\* an object json.dumps rejects, as str() shows it
NonSerializable == "<object>"
\* function(arguments): every callable returns "done", but for the one named
\* h, which returns the object
Returns(function) == IF function.name = "h" THEN NonSerializable ELSE ReturnValue

\* json.dumps that leaves a str as it is
JsonDumpsBare(result) == result

\* json.dumps of a str: the text in double quotes
JsonDumps(result) == "\"" \o result \o "\""

\* RawFunctionResult.serialized
Serialized(raw_result) ==
    IF raw_result.serialize THEN JsonDumps(raw_result.result) ELSE raw_result.result

RawFunctionResult(result, serialize) == [result |-> result, serialize |-> serialize]

\* a FunctionResult built with the two flags in each other's place
FunctionResultSwapped(name, raw_result, remove_call, interpret_return_as_response) ==
    [name |-> name, raw_result |-> raw_result,
     remove_call |-> interpret_return_as_response,
     interpret_return_as_response |-> remove_call]

FunctionResult(name, raw_result, remove_call, interpret_return_as_response) ==
    [name |-> name, raw_result |-> raw_result, remove_call |-> remove_call,
     interpret_return_as_response |-> interpret_return_as_response]

\* FunctionResult.content
Content(function_result) ==
    IF function_result.raw_result # NULL
    THEN Some(Serialized(Get(function_result.raw_result)))
    ELSE NULL

\* RawFunctionResult.serialized: the exception json.dumps makes it raise
SerializedRaises(raw_result) ==
    IF raw_result.serialize /\ raw_result.result = NonSerializable
    THEN NonSerializableOutputError
    ELSE NoError

\* FunctionResult.content: the exception it raises
ContentRaises(function_result) ==
    IF function_result.raw_result # NULL
    THEN SerializedRaises(Get(function_result.raw_result))
    ELSE NoError

\* FunctionResult.result (NULL for Python's None)
Result(function_result) ==
    IF function_result.raw_result # NULL
    THEN Some(Get(function_result.raw_result).result)
    ELSE NULL

(***************************************************************************)
(* Function sets.  run_function is modelled by its outcome: the exception  *)
(* raised (or NoError), the FunctionResult, the uids of the callables it   *)
(* ran, and the set after the call.                                        *)
(***************************************************************************)
BasicFunctionSet(sid, fs) ==
    [kind |-> "basic", sid |-> sid, functions |-> fs]

\* TogglableSet.__init__
TogglableSet(sid, enable_function_name, fs) ==
    [kind |-> "togglable", sid |-> sid, functions |-> fs, enabled |-> FALSE,
     enable_function_name |-> enable_function_name]

Raise(error, set) == [raised |-> error, result |-> NULL, ran |-> <<>>, set |-> set]

\* BasicFunctionSet.functions_schema
BasicFunctionsSchema(fs) == [i \in 1..Len(fs) |-> FunctionSchema(fs[i])]

\* BasicFunctionSet.find_function: the index of the first function of that
\* name, 0 when there is none (FunctionNotFoundError)
FindFunction(fs, function_name) ==
    IF \E i \in 1..Len(fs) : fs[i].name = function_name
    THEN CHOOSE i \in 1..Len(fs) :
            /\ fs[i].name = function_name
            /\ \A j \in 1..(i - 1) : fs[j].name # function_name
    ELSE 0

\* get_function_result that keeps the return whatever save_return says
GetFunctionResultAlwaysSaved(function) ==
    Some(RawFunctionResult(Returns(function), function.serialize))

\* BasicFunctionSet.get_function_result
GetFunctionResult(function) ==
    IF function.save_return
    THEN Some(RawFunctionResult(Returns(function), function.serialize))
    ELSE NULL

\* run_function that decodes the arguments before it looks the name up
BasicRunFunctionJsonFirst(set, input_data) ==
    LET i == FindFunction(set.functions, input_data.name) IN
    IF input_data.arguments = InvalidArguments THEN Raise(InvalidJsonError, set)
    ELSE IF i = 0 THEN Raise(RaisedNotFound, set)
    ELSE IF input_data.arguments = MismatchedArguments
    THEN Raise(BrokenSchemaError, set)
    ELSE LET function == set.functions[i] IN
         [raised |-> NoError,
          result |-> Some(FunctionResult(function.name, GetFunctionResult(function),
                                         function.remove_call,
                                         function.interpret_as_response)),
          ran |-> <<function.uid>>,
          set |-> set]

\* BasicFunctionSet.run_function
BasicRunFunction(set, input_data) ==
    LET i == FindFunction(set.functions, input_data.name) IN
    IF i = 0 THEN Raise(RaisedNotFound, set)
    ELSE IF input_data.arguments = InvalidArguments THEN Raise(InvalidJsonError, set)
    ELSE IF input_data.arguments = MismatchedArguments
    THEN Raise(BrokenSchemaError, set)
    ELSE LET function == set.functions[i] IN
         [raised |-> NoError,
          result |-> Some(FunctionResult(function.name, GetFunctionResult(function),
                                         function.remove_call,
                                         function.interpret_as_response)),
          ran |-> <<function.uid>>,
          set |-> set]

\* TogglableSet._enable_function_schema
EnableFunctionSchema(set) ==
    [name |-> set.enable_function_name, description |-> NULL, fn |-> 0]

\* TogglableSet.functions_schema
TogglableFunctionsSchema(set) ==
    IF set.enabled THEN BasicFunctionsSchema(set.functions)
    ELSE <<EnableFunctionSchema(set)>>

\* TogglableSet.enable
Enable(set) == [set EXCEPT !.enabled = TRUE]

\* TogglableSet.run_function without the gate: a disabled set runs its members
TogglableRunFunctionUngated(set, input_data) ==
    IF ~set.enabled /\ input_data.name = set.enable_function_name
    THEN [raised |-> NoError,
          result |-> Some(FunctionResult(set.enable_function_name, NULL, TRUE, FALSE)),
          ran |-> <<>>,
          set |-> Enable(set)]
    ELSE BasicRunFunction(set, input_data)

\* TogglableSet.run_function enabling the set before it looks at the name
TogglableRunFunctionEager(set, input_data) ==
    IF ~set.enabled
    THEN IF input_data.name = set.enable_function_name
         THEN [raised |-> NoError,
               result |-> Some(FunctionResult(set.enable_function_name, NULL, TRUE, FALSE)),
               ran |-> <<>>,
               set |-> Enable(set)]
         ELSE Raise(RaisedNotFound, Enable(set))
    ELSE BasicRunFunction(set, input_data)

\* TogglableSet.run_function with the enable result flagged as a response
\* and not as a call to remove
TogglableRunFunctionAsResponse(set, input_data) ==
    IF ~set.enabled
    THEN IF input_data.name = set.enable_function_name
         THEN [raised |-> NoError,
               result |-> Some(FunctionResult(set.enable_function_name, NULL, FALSE, TRUE)),
               ran |-> <<>>,
               set |-> Enable(set)]
         ELSE Raise(RaisedNotFound, set)
    ELSE BasicRunFunction(set, input_data)

\* TogglableSet.run_function
TogglableRunFunction(set, input_data) ==
    IF ~set.enabled
    THEN IF input_data.name = set.enable_function_name
         THEN [raised |-> NoError,
               result |-> Some(FunctionResult(set.enable_function_name, NULL, TRUE, FALSE)),
               ran |-> <<>>,
               set |-> Enable(set)]
         ELSE Raise(RaisedNotFound, set)
    ELSE BasicRunFunction(set, input_data)

\* function_set.run_function, dispatched on the class of the set
SetRunFunction(set, input_data) ==
    IF set.kind = "togglable" THEN TogglableRunFunction(set, input_data)
    ELSE BasicRunFunction(set, input_data)

\* function_set.functions_schema, dispatched on the class of the set
SetFunctionsSchema(set) ==
    IF set.kind = "togglable" THEN TogglableFunctionsSchema(set)
    ELSE BasicFunctionsSchema(set.functions)

\* contextlib.suppress(FunctionNotFoundError) in union.py: the exceptions
\* the with block swallows
Suppressed(error) == error = SuppressedNotFound

\* UnionSkillSet.run_function from child i on: the outcome, with the child
\* sets after the call in ss
RECURSIVE UnionRunFrom(_, _, _, _)
UnionRunFrom(ss, fs, input_data, i) ==
    IF i > Len(ss)
    THEN LET o == BasicRunFunction(BasicFunctionSet("local", fs), input_data) IN
         [raised |-> o.raised, result |-> o.result, ran |-> o.ran, ss |-> ss]
    ELSE LET o == SetRunFunction(ss[i], input_data)
             ss2 == [ss EXCEPT ![i] = o.set]
         IN IF o.raised # NoError /\ Suppressed(o.raised)
            THEN UnionRunFrom(ss2, fs, input_data, i + 1)
            ELSE [raised |-> o.raised, result |-> o.result, ran |-> o.ran, ss |-> ss2]

Reverse(q) == [i \in 1..Len(q) |-> q[Len(q) + 1 - i]]

\* UnionSkillSet.run_function going through the child sets last to first
UnionRunFunctionBackwards(ss, fs, input_data) ==
    LET o == UnionRunFrom(Reverse(ss), fs, input_data, 1) IN
    [raised |-> o.raised, result |-> o.result, ran |-> o.ran, ss |-> Reverse(o.ss)]

\* UnionSkillSet.run_function
UnionRunFunction(ss, fs, input_data) == UnionRunFrom(ss, fs, input_data, 1)

RECURSIVE ConcatSchemas(_, _)
ConcatSchemas(ss, i) ==
    IF i > Len(ss) THEN <<>>
    ELSE SetFunctionsSchema(ss[i]) \o ConcatSchemas(ss, i + 1)

\* UnionSkillSet.functions_schema
UnionFunctionsSchema(ss, fs) == BasicFunctionsSchema(fs) \o ConcatSchemas(ss, 1)

\* _add_function that puts the new function first
AddToFront(fs, function) == <<function>> \o fs

\* BasicFunctionSet._add_function
AddTo(fs, function) == Append(fs, function)

\* BasicFunctionSet._remove_function
RemoveFrom(fs, name) == SelectSeq(fs, LAMBDA f : f.name # name)

(***************************************************************************)
(* SetSpec: a UnionSkillSet, its child sets and its local set, under       *)
(* run_function, add_function and remove_function.  Target 0 is the        *)
(* UnionSkillSet itself, target i > 0 its i-th child set.                  *)
(***************************************************************************)
\* the configs add_function is called with in SetSpec
SetConfigs == {DefaultConfig, WrapperConfig(FALSE, TRUE, TRUE, FALSE)}

FunctionCall(name, arguments) == [name |-> name, arguments |-> arguments]

FunctionCalls == {FunctionCall(n, a) : n \in CallNames, a \in Arguments}

NoOperation ==
    [op |-> "none", target |-> 0, name |-> "", raised |-> NoError, result |-> NULL,
     ran |-> <<>>, sets |-> <<>>, functions |-> <<>>]

\* what an operation did: its outcome, and the sets as they were before it
Operation(o, target, name, raised, result, ran) ==
    [op |-> o, target |-> target, name |-> name, raised |-> raised, result |-> result,
     ran |-> ran, sets |-> sets, functions |-> functions]

SetS1 == BasicFunctionSet("S1", <<FunctionWrapper(1, "f", DefaultConfig)>>)
SetS2 == BasicFunctionSet("S2", <<FunctionWrapper(2, "f", DefaultConfig)>>)
SetT2 == TogglableSet("S2", EnableName, <<FunctionWrapper(2, "f", DefaultConfig)>>)

\* UnionSkillSet(*sets): the child sets given, and an empty local set
InitSets ==
    /\ sets \in {<<>>, <<SetS1>>, <<SetT2>>, <<SetS1, SetS2>>, <<SetS2, SetS1>>,
                 <<SetS1, SetT2>>, <<SetT2, SetS1>>}
    /\ functions = <<>>
    /\ last = NoOperation
    /\ nextUid = 3

\* the call-mode of a request: "auto", "none", or a forced function name
Auto == [mode |-> "auto", name |-> ""]
None == [mode |-> "none", name |-> ""]
ForcedFunctionCall(name) == [mode |-> "forced", name |-> name]

NoOutcome == [kind |-> "none", error |-> NoError, message |-> NULL, value |-> NULL]

\* no FunctionWrapper has been called with parsed arguments yet
NoInvocation ==
    [kind |-> "none", type |-> NULL, arguments |-> NULL, raised |-> NoError,
     value |-> NULL, response |-> NULL, schema |-> NULL]

\* Conversation.__init__
InitConversation ==
    /\ messages = <<>>
    /\ pc = "idle"
    /\ op = [name |-> "none", function_call |-> Auto, retries |-> NULL,
             prompt |-> NULL, start |-> 0]
    /\ retries = 0
    /\ requests = 0
    /\ sleeps = 0
    /\ sleptBefore = FALSE
    /\ resolved = NULL
    /\ popped = NULL
    /\ outcome = NoOutcome

\* a Conversation, and no FunctionWrapper called yet
InitEngine == InitConversation /\ invocation = NoInvocation

\* run_function called on the UnionSkillSet
RunUnion(input_data) ==
    LET o == UnionRunFunction(sets, functions, input_data) IN
    /\ sets' = o.ss
    /\ last' = Operation("run", 0, input_data.name, o.raised, o.result, o.ran)
    /\ UNCHANGED <<functions, nextUid>>
    /\ UNCHANGED engineVars

\* run_function called on a child set
RunChild(i, input_data) ==
    LET o == SetRunFunction(sets[i], input_data) IN
    /\ sets' = [sets EXCEPT ![i] = o.set]
    /\ last' = Operation("run", i, input_data.name, o.raised, o.result, o.ran)
    /\ UNCHANGED <<functions, nextUid>>
    /\ UNCHANGED engineVars

\* MutableFunctionSet.add_function with a callable
AddFunction(target, name, config) ==
    /\ nextUid <= MaxFunctions
    /\ IF target = 0
       THEN /\ functions' = AddTo(functions, FunctionWrapper(nextUid, name, config))
            /\ UNCHANGED sets
       ELSE /\ sets' = [sets EXCEPT ![target].functions =
                            AddTo(@, FunctionWrapper(nextUid, name, config))]
            /\ UNCHANGED functions
    /\ nextUid' = nextUid + 1
    /\ last' = Operation("add", target, name, NoError, NULL, <<>>)
    /\ UNCHANGED engineVars

\* MutableFunctionSet.remove_function with a name
RemoveFunction(target, name) ==
    /\ IF target = 0
       THEN /\ functions' = RemoveFrom(functions, name)
            /\ UNCHANGED sets
       ELSE /\ sets' = [sets EXCEPT ![target].functions = RemoveFrom(@, name)]
            /\ UNCHANGED functions
    /\ last' = Operation("remove", target, name, NoError, NULL, <<>>)
    /\ UNCHANGED nextUid
    /\ UNCHANGED engineVars

SetNext ==
    \/ \E c \in FunctionCalls : RunUnion(c)
    \/ \E i \in 1..Len(sets), c \in FunctionCalls : RunChild(i, c)
    \/ \E t \in 0..Len(sets), n \in FunctionNames, c \in SetConfigs :
          AddFunction(t, n, c)
    \/ \E t \in 0..Len(sets), n \in FunctionNames :
          RemoveFunction(t, n)

SetInit == InitSets /\ InitEngine

SetSpec == SetInit /\ [][SetNext]_vars

(***************************************************************************)
(* Messages.  A message is a dict with a role and a content; an assistant  *)
(* tool call has a function_call and no content, a function result has a   *)
(* name.  runs and skipped are history: how often the engine ran the tool   *)
(* call of this message, and whether a forced request passed it over.      *)
(***************************************************************************)
Message(role, content, function_call, name) ==
    [role |-> role, content |-> content, function_call |-> function_call,
     name |-> name, runs |-> 0, skipped |-> FALSE]

\* Message(message) with a str: a user message
UserMessage(text) == Message("user", Some(text), NULL, NULL)

\* FinalResponseMessageType
FinalResponseMessage(text) == Message("assistant", Some(text), NULL, NULL)

\* IntermediateResponseMessageType
IntermediateResponseMessage(function_call) ==
    Message("assistant", NULL, Some(function_call), NULL)

\* FunctionMessageType
FunctionMessage(name, content) == Message("function", content, NULL, Some(name))

\* Message.function_call
MessageFunctionCall(m) ==
    IF m.role = "assistant"
    THEN IF m.content # NULL THEN NULL ELSE m.function_call
    ELSE NULL

\* is_final_response without the check of the content
IsFinalResponseAnyAssistant(m) == m.role = "assistant"

\* Message.is_final_response
IsFinalResponse(m) == m.role = "assistant" /\ m.content # NULL

\* the text of a user message, and of a reply of the model
Question == "hi"
Answer == "answer"

\* the tool calls the model makes of its own accord: every name with valid
\* arguments, and f with arguments that are not JSON
BackendCalls ==
    {FunctionCall(n, ValidArguments) : n \in CallNames}
    \cup {FunctionCall("f", InvalidArguments)}

\* what the backend may answer to a request with this call-mode
BackendReplies(function_call) ==
    IF function_call.mode = "none"
    THEN {FinalResponseMessage(Answer)}
    ELSE IF function_call.mode = "forced"
    THEN {IntermediateResponseMessage(FunctionCall(function_call.name, a)) :
             a \in Arguments}
    ELSE {FinalResponseMessage(Answer)}
         \cup {IntermediateResponseMessage(c) : c \in BackendCalls}

(***************************************************************************)
(* The Conversation's handling of a function result                        *)
(***************************************************************************)
\* pop_message with index 0
PopMessageFirst(ms) == Tail(ms)

\* Conversation.pop_message
PopMessage(ms) == SubSeq(ms, 1, Len(ms) - 1)

\* the condition of Conversation.remove_function_call
IsLastFunctionCall(ms, function_name) ==
    /\ MessageFunctionCall(ms[Len(ms)]) # NULL
    /\ Get(MessageFunctionCall(ms[Len(ms)])).name = function_name

\* remove_function_call that leaves the call in the history
RemoveFunctionCallNever(ms, function_name) == ms

\* Conversation.remove_function_call
RemoveFunctionCall(ms, function_name) ==
    IF IsLastFunctionCall(ms, function_name) THEN PopMessage(ms) ELSE ms

\* _add_function_result that ignores interpret_return_as_response
AddFunctionResultMessageAsCall(ms, function_result) ==
    IF Content(function_result) = NULL THEN ms
    ELSE Append(ms, FunctionMessage(function_result.name, Content(function_result)))

\* Conversation._add_function_result: the messages after it
AddFunctionResultMessage(ms, function_result) ==
    IF Content(function_result) = NULL THEN ms
    ELSE IF function_result.interpret_return_as_response
    THEN Append(ms, FinalResponseMessage(Get(Content(function_result))))
    ELSE Append(ms, FunctionMessage(function_result.name, Content(function_result)))

\* _add_function_result returning False also when it added the result
FunctionResultAddedNever(function_result) == FALSE

\* Conversation._add_function_result: what it returns
FunctionResultAdded(function_result) == Content(function_result) # NULL

\* add_function_result that appends the result before it removes the call
AddFunctionResultAppendFirst(ms, function_result) ==
    LET appended == AddFunctionResultMessage(ms, function_result) IN
    IF function_result.remove_call
    THEN RemoveFunctionCall(appended, function_result.name)
    ELSE appended

\* Conversation.add_function_result: the messages after it
AddFunctionResult(ms, function_result) ==
    AddFunctionResultMessage(
        IF function_result.remove_call
        THEN RemoveFunctionCall(ms, function_result.name)
        ELSE ms,
        function_result)

\* generate_message that runs a pending function whatever the call-mode
MayRunFunctionAlways(function_call) == TRUE

\* generate_message: function_call in ["auto", "none"], the call-modes under
\* which run_function_if_needed is called
MayRunFunction(function_call) == function_call.mode \in {"auto", "none"}

\* run_function_if_needed that never finds a function to run
FunctionNeededNever(ms) == FALSE

\* Conversation.run_function_if_needed: whether it runs a function
FunctionNeeded(ms) == ms # <<>> /\ MessageFunctionCall(ms[Len(ms)]) # NULL

\* _generate_message with a budget that is kept across calls
EnterRetriesCarried(n) ==
    IF n = NULL THEN -1
    ELSE IF sleptBefore \/ sleeps > 0 THEN retries ELSE Get(n)

\* _generate_message taking None for no retries
EnterRetriesNoneIsZero(n) == IF n = NULL THEN 0 ELSE Get(n)

\* _generate_message: the local retries when the loop starts
EnterRetries(n) == IF n = NULL THEN -1 ELSE Get(n)

\* _generate_message: the budget is used up, the failure is re-raised
Exhausted(r) == r = 0

(***************************************************************************)
(* Spec: the Conversation engine.  pc is "idle" between operations,        *)
(* "enter" at the start of a generate_message call, "request" before a     *)
(* backend request of _generate_message.                                   *)
(***************************************************************************)
\* the retries argument: None, or a number
RetryBudgets == {NULL} \cup {Some(n) : n \in 0..MaxRetries}

\* a function that neither saves its return nor keeps its call
Silent == WrapperConfig(FALSE, TRUE, TRUE, FALSE)

\* the functions of the Conversation: f (with any config) and g registered
\* on it, or f registered on it and g in a TogglableSet given as a skill
InitSkills ==
    \/ \E c \in AllConfigs :
          /\ sets = <<>>
          /\ functions = <<FunctionWrapper(1, "f", c), FunctionWrapper(2, "g", Silent)>>
    \/ \E c \in {DefaultConfig, Silent} :
          /\ sets = <<TogglableSet("T", EnableName, <<FunctionWrapper(2, "g", c)>>)>>
          /\ functions = <<FunctionWrapper(1, "f", DefaultConfig)>>

Init ==
    /\ InitSkills
    /\ last = NoOperation
    /\ nextUid = 3
    /\ InitEngine

\* the functions of the Conversation in RetrySpec: f, which does not save
\* its return, and g
RetryInit ==
    /\ sets = <<>>
    /\ functions = <<FunctionWrapper(1, "f", WrapperConfig(FALSE, TRUE, FALSE, FALSE)),
                     FunctionWrapper(2, "g", DefaultConfig)>>
    /\ last = NoOperation
    /\ nextUid = 3
    /\ InitEngine

Returned(message) ==
    [kind |-> "returned", error |-> NoError, message |-> Some(message), value |-> NULL]
Raised(error) ==
    [kind |-> "raised", error |-> error, message |-> NULL, value |-> NULL]
\* Conversation.run returns value (NULL for Python's None)
ReturnedValue(value) ==
    [kind |-> "value", error |-> NoError, message |-> NULL, value |-> value]

\* Conversation.add_message with a str
AddMessage(text) ==
    /\ pc = "idle"
    /\ Len(messages) < MaxMessages
    /\ messages' = Append(messages, UserMessage(text))
    /\ outcome' = NoOutcome
    /\ resolved' = NULL
    /\ popped' = NULL
    /\ UNCHANGED <<pc, op, retries, requests, sleeps, sleptBefore, invocation>>
    /\ UNCHANGED setVars

\* a call of an engine operation begins
Begin(name, function_call, n) ==
    /\ pc = "idle"
    /\ pc' = "enter"
    /\ op' = [name |-> name, function_call |-> function_call, retries |-> n,
               prompt |-> NULL, start |-> 0]
    /\ requests' = 0
    /\ sleeps' = 0
    /\ sleptBefore' = FALSE
    /\ resolved' = NULL
    /\ popped' = NULL
    /\ outcome' = NoOutcome
    /\ UNCHANGED <<messages, retries, invocation>>
    /\ UNCHANGED setVars

\* Conversation.generate_message is called
GenerateMessage(function_call, n) == Begin("generate_message", function_call, n)

\* Conversation.run_until_response is called
RunUntilResponse(allow_function_calls, n) ==
    Begin("run_until_response", IF allow_function_calls THEN Auto ELSE None, n)

\* a loop of run_until_response that goes round whatever generate_message
\* returns
ReturnLooping(message) ==
    IF op.name = "run_until_response"
    THEN pc' = "enter" /\ outcome' = outcome
    ELSE IF op.name = "run"
    THEN pc' = "call" /\ outcome' = outcome
    ELSE pc' = "idle" /\ outcome' = Returned(message)

\* generate_message returns message: the operation returns it, or the loop
\* of run_until_response calls generate_message again
Return(message) ==
    IF op.name = "run_until_response" /\ ~IsFinalResponse(message)
    THEN pc' = "enter" /\ outcome' = outcome
    ELSE IF op.name = "run"
    THEN pc' = "call" /\ outcome' = outcome
    ELSE pc' = "idle" /\ outcome' = Returned(message)

\* generate_message up to the backend request: run_function_if_needed, and
\* the return when a function result was added
Enter ==
    /\ pc = "enter"
    /\ requests' = 0
    /\ sleeps' = 0
    /\ sleptBefore' = (sleptBefore \/ sleeps > 0)
    /\ UNCHANGED <<op, functions, last, nextUid, invocation>>
    /\ IF MayRunFunction(op.function_call) /\ FunctionNeeded(messages)
       THEN LET o == UnionRunFunction(sets, functions,
                                      Get(MessageFunctionCall(messages[Len(messages)])))
            IN /\ sets' = o.ss
               /\ IF o.raised # NoError
                  THEN /\ pc' = "idle"
                       /\ outcome' = Raised(o.raised)
                       /\ resolved' = NULL
                       /\ popped' = NULL
                       /\ UNCHANGED <<messages, retries>>
                  ELSE LET function_result == Get(o.result)
                           ran == [messages EXCEPT ![Len(messages)].runs = @ + 1]
                           removed == IF function_result.remove_call
                                      THEN RemoveFunctionCall(ran, function_result.name)
                                      ELSE ran
                           after == AddFunctionResult(ran, function_result)
                       IN /\ messages[Len(messages)].runs < MaxRuns
                          /\ resolved' = Some(function_result)
                          /\ popped' = IF function_result.remove_call
                                          /\ IsLastFunctionCall(ran, function_result.name)
                                       THEN Some(ran[Len(ran)])
                                       ELSE NULL
                          /\ IF ContentRaises(function_result) # NoError
                             THEN /\ messages' = removed
                                  /\ pc' = "idle"
                                  /\ outcome' = Raised(ContentRaises(function_result))
                                  /\ UNCHANGED retries
                             ELSE /\ Len(after) <= MaxMessages
                                  /\ messages' = after
                                  /\ IF FunctionResultAdded(function_result)
                                     THEN Return(after[Len(after)]) /\ UNCHANGED retries
                                     ELSE /\ pc' = "request"
                                          /\ retries' = EnterRetries(op.retries)
                                          /\ outcome' = outcome
       ELSE /\ pc' = "request"
            /\ retries' = EnterRetries(op.retries)
            /\ resolved' = NULL
            /\ popped' = NULL
            /\ messages' = IF FunctionNeeded(messages)
                           THEN [messages EXCEPT ![Len(messages)].skipped = TRUE]
                           ELSE messages
            /\ UNCHANGED <<sets, outcome>>

\* _generate_raw_message succeeds: the reply is appended and returned
BackendReply(message) ==
    /\ pc = "request"
    /\ Len(messages) < MaxMessages
    /\ requests' = requests + 1
    /\ messages' = Append(messages, message)
    /\ Return(message)
    /\ UNCHANGED <<op, retries, sleeps, sleptBefore, resolved, popped, invocation>>
    /\ UNCHANGED setVars

\* a rate-limit failure whose handling drops the last message
BackendRateLimitPopping ==
    /\ pc = "request"
    /\ requests < MaxFailures
    /\ requests' = requests + 1
    /\ IF Exhausted(retries)
       THEN /\ pc' = "idle"
            /\ outcome' = Raised(RateLimitError)
            /\ UNCHANGED <<retries, sleeps>>
       ELSE /\ retries' = retries - 1
            /\ sleeps' = sleeps + 1
            /\ UNCHANGED <<pc, outcome>>
    /\ messages' = PopMessage(messages)
    /\ UNCHANGED <<op, sleptBefore, resolved, popped, invocation>>
    /\ UNCHANGED setVars

\* _generate_raw_message raises RateLimitError
BackendRateLimit ==
    /\ pc = "request"
    /\ requests < MaxFailures
    /\ requests' = requests + 1
    /\ IF Exhausted(retries)
       THEN /\ pc' = "idle"
            /\ outcome' = Raised(RateLimitError)
            /\ UNCHANGED <<retries, sleeps>>
       ELSE /\ retries' = retries - 1
            /\ sleeps' = sleeps + 1
            /\ UNCHANGED <<pc, outcome>>
    /\ UNCHANGED <<messages, op, sleptBefore, resolved, popped, invocation>>
    /\ UNCHANGED setVars

\* Conversation.run is called: the prompt, if given, is added and
\* generate_message is called with the forced function call
Run(function, prompt, n) ==
    /\ pc = "idle"
    /\ prompt # NULL => Len(messages) < MaxMessages
    /\ messages' = IF prompt # NULL
                   THEN Append(messages, UserMessage(Get(prompt)))
                   ELSE messages
    /\ pc' = "enter"
    /\ op' = [name |-> "run", function_call |-> ForcedFunctionCall(function),
               retries |-> n, prompt |-> prompt, start |-> Len(messages)]
    /\ requests' = 0
    /\ sleeps' = 0
    /\ sleptBefore' = FALSE
    /\ resolved' = NULL
    /\ popped' = NULL
    /\ outcome' = NoOutcome
    /\ UNCHANGED <<retries, invocation>>
    /\ UNCHANGED setVars

\* Conversation.run after generate_message returned response:
\* return self.skills(response.function_call)
RunCall ==
    /\ pc = "call"
    /\ pc' = "idle"
    /\ messages[Len(messages)].runs < MaxRuns
    /\ LET response == messages[Len(messages)]
           o == UnionRunFunction(sets, functions, Get(MessageFunctionCall(response)))
       IN /\ sets' = o.ss
          /\ IF o.raised # NoError
             THEN /\ outcome' = Raised(o.raised)
                  /\ UNCHANGED messages
             ELSE /\ outcome' = ReturnedValue(Result(Get(o.result)))
                  /\ messages' = [messages EXCEPT ![Len(messages)].runs = @ + 1]
    /\ UNCHANGED <<op, retries, requests, sleeps, sleptBefore, resolved, popped>>
    /\ UNCHANGED <<functions, last, nextUid, invocation>>

\* Spec: every config of f, every call-mode, the retry budget 0
Next ==
    \/ AddMessage(Question)
    \/ \E m \in {Auto, None, ForcedFunctionCall("f")} : GenerateMessage(m, Some(0))
    \/ \E a \in BOOLEAN : RunUntilResponse(a, Some(0))
    \/ Enter
    \/ \E m \in BackendReplies(op.function_call) : BackendReply(m)
    \/ BackendRateLimit

Spec == Init /\ [][Next]_vars

\* RunSpec: run with and without a prompt next to generate_message and
\* run_until_response, the retry budget 0
RunNext ==
    \/ AddMessage(Question)
    \/ GenerateMessage(Auto, Some(0))
    \/ RunUntilResponse(TRUE, Some(0))
    \/ \E prompt \in {NULL, Some(Question)} : Run("f", prompt, Some(0))
    \/ Enter
    \/ \E m \in BackendReplies(op.function_call) : BackendReply(m)
    \/ BackendRateLimit
    \/ RunCall

\* the functions of the Conversation in RunSpec: f with any config, and g
RunInit ==
    /\ sets = <<>>
    /\ \E c \in AllConfigs :
          functions = <<FunctionWrapper(1, "f", c), FunctionWrapper(2, "g", Silent)>>
    /\ last = NoOperation
    /\ nextUid = 3
    /\ InitEngine

RunSpec == RunInit /\ [][RunNext]_vars

\* RetrySpec: every retry budget, the call-modes auto and none
RetryNext ==
    \/ AddMessage(Question)
    \/ \E n \in RetryBudgets : GenerateMessage(Auto, n)
    \/ \E a \in BOOLEAN, n \in RetryBudgets : RunUntilResponse(a, n)
    \/ Enter
    \/ \E m \in BackendReplies(op.function_call) : BackendReply(m)
    \/ BackendRateLimit

\* the backend does not fail for ever: a request that can succeed does
RetrySpec ==
    /\ RetryInit
    /\ [][RetryNext]_vars
    /\ WF_vars(\E m \in BackendReplies(op.function_call) : BackendReply(m))

(***************************************************************************)
(* NlpSpec: Conversation.run followed by run_until_response(False), as     *)
(* Wrapper.natural_language_annotated calls them, on a Conversation whose   *)
(* one function is f.                                                      *)
(***************************************************************************)
\* Wrapper.natural_language_annotated(prompt) up to the backend request of
\* run: _initialize_conversation clears the messages (there is no system
\* prompt), and run adds the prompt and forces the call
NaturalLanguageAnnotated(prompt, n) ==
    /\ pc = "idle"
    /\ messages' = <<UserMessage(prompt)>>
    /\ pc' = "enter"
    /\ op' = [name |-> "run", function_call |-> ForcedFunctionCall("f"),
               retries |-> n, prompt |-> Some(prompt), start |-> 0]
    /\ requests' = 0
    /\ sleeps' = 0
    /\ sleptBefore' = FALSE
    /\ resolved' = NULL
    /\ popped' = NULL
    /\ outcome' = NoOutcome
    /\ UNCHANGED <<retries, invocation>>
    /\ UNCHANGED setVars

\* run has returned the raw result: run_until_response(False) is called, the
\* statement that follows run in natural_language_annotated
RespondAfterRun(n) ==
    /\ op.name = "run"
    /\ outcome.kind = "value"
    /\ RunUntilResponse(FALSE, n)

NlpInit ==
    /\ sets = <<>>
    /\ \E c \in AllConfigs : functions = <<FunctionWrapper(1, "f", c)>>
    /\ last = NoOperation
    /\ nextUid = 2
    /\ InitEngine

NlpNext ==
    \/ NaturalLanguageAnnotated(Question, Some(0))
    \/ \E prompt \in {NULL, Some(Question)} : Run("f", prompt, Some(0))
    \/ RunCall
    \/ RespondAfterRun(Some(0))
    \/ Enter
    \/ \E m \in BackendReplies(op.function_call) : BackendReply(m)
    \/ BackendRateLimit

NlpSpec == NlpInit /\ [][NlpNext]_vars

(***************************************************************************)
(* ResponseSpec: run_until_response(False) on a Conversation whose history *)
(* ends with a tool call, as Wrapper.natural_language_response leaves it,   *)
(* with a backend that answers every request.  The engine takes its steps  *)
(* and the backend answers: both are weakly fair.                          *)
(***************************************************************************)
\* the tool call the history ends with: f with arguments that are valid or
\* not JSON, or a name no set has
PendingCalls ==
    {FunctionCall("f", a) : a \in Arguments}
    \cup {FunctionCall(UnknownName, ValidArguments)}

\* the histories: the tool call alone, or after a user message
PendingHistories ==
    {<<IntermediateResponseMessage(c)>> : c \in PendingCalls}
    \cup {<<UserMessage(Question), IntermediateResponseMessage(c)>> : c \in PendingCalls}

ResponseInit ==
    /\ sets = <<>>
    /\ \E c \in AllConfigs : functions = <<FunctionWrapper(1, "f", c)>>
    /\ last = NoOperation
    /\ nextUid = 2
    /\ messages \in PendingHistories
    /\ pc = "idle"
    /\ op = [name |-> "none", function_call |-> Auto, retries |-> NULL,
             prompt |-> NULL, start |-> 0]
    /\ retries = 0
    /\ requests = 0
    /\ sleeps = 0
    /\ sleptBefore = FALSE
    /\ resolved = NULL
    /\ popped = NULL
    /\ outcome = NoOutcome
    /\ invocation = NoInvocation

ResponseNext ==
    \/ \E n \in RetryBudgets : RunUntilResponse(FALSE, n)
    \/ Enter
    \/ \E m \in BackendReplies(op.function_call) : BackendReply(m)

ResponseSpec ==
    /\ ResponseInit
    /\ [][ResponseNext]_vars
    /\ WF_vars(Enter)
    /\ WF_vars(\E m \in BackendReplies(op.function_call) : BackendReply(m))

(***************************************************************************)
(* LoopSpec: run_until_response with either value of allow_function_calls  *)
(* on a Conversation with f (any config) and g, which neither saves its    *)
(* return nor keeps its call, so that the loop can go round without the    *)
(* history growing.  The engine takes its steps, and the backend, asked    *)
(* again and again, eventually answers with a contentful assistant         *)
(* message: the answer is strongly fair.                                   *)
(***************************************************************************)
LoopInit ==
    /\ sets = <<>>
    /\ \E c \in AllConfigs :
          functions = <<FunctionWrapper(1, "f", c), FunctionWrapper(2, "g", Silent)>>
    /\ last = NoOperation
    /\ nextUid = 3
    /\ InitEngine

LoopNext ==
    \/ AddMessage(Question)
    \/ \E a \in BOOLEAN : RunUntilResponse(a, Some(0))
    \/ Enter
    \/ \E m \in BackendReplies(op.function_call) : BackendReply(m)

LoopSpec ==
    /\ LoopInit
    /\ [][LoopNext]_vars
    /\ WF_vars(Enter)
    /\ SF_vars(BackendReply(FinalResponseMessage(Answer)))

(***************************************************************************)
(* FailSpec: the engine with one function, h, whose return value           *)
(* json.dumps rejects, under every WrapperConfig, and a model that calls   *)
(* it with arguments that are valid, not JSON, or not of its schema.       *)
(***************************************************************************)
\* every combination of the four flags of a WrapperConfig
FailConfigs ==
    {WrapperConfig(s, z, r, i) :
        s \in BOOLEAN, z \in BOOLEAN, r \in BOOLEAN, i \in BOOLEAN}

\* the tool calls the model makes in FailSpec
FailCalls ==
    {FunctionCall("h", a) : a \in Arguments \cup {MismatchedArguments}}
    \cup {FunctionCall(UnknownName, ValidArguments)}

\* what the backend may answer to a request with this call-mode
FailReplies(function_call) ==
    IF function_call.mode = "none"
    THEN {FinalResponseMessage(Answer)}
    ELSE IF function_call.mode = "forced"
    THEN {IntermediateResponseMessage(FunctionCall(function_call.name, a)) :
             a \in Arguments \cup {MismatchedArguments}}
    ELSE {FinalResponseMessage(Answer)}
         \cup {IntermediateResponseMessage(c) : c \in FailCalls}

FailInit ==
    /\ sets = <<>>
    /\ \E c \in FailConfigs : functions = <<FunctionWrapper(1, "h", c)>>
    /\ last = NoOperation
    /\ nextUid = 2
    /\ InitEngine

FailNext ==
    \/ AddMessage(Question)
    \/ \E m \in {Auto, None, ForcedFunctionCall("h")} : GenerateMessage(m, Some(0))
    \/ \E a \in BOOLEAN : RunUntilResponse(a, Some(0))
    \/ Enter
    \/ \E m \in FailReplies(op.function_call) : BackendReply(m)
    \/ BackendRateLimit

FailSpec == FailInit /\ [][FailNext]_vars

(***************************************************************************)
(* Argument parsers.  A type annotation is a record with its kind, its     *)
(* argument types (the item type of a list or dict, the field types of a   *)
(* dataclass, the alternatives of a Union) and its names (the members of   *)
(* an enum, the fields of a dataclass).  A JSON value is a record with its *)
(* Python class t after json.loads, its text v, its items and its keys.    *)
(***************************************************************************)
TypeError == "TypeError"
ValueError == "ValueError"
CannotParseTypeError == "CannotParseTypeError"

\* an annotation; defaults holds, for a dataclass, what each field declares
\* as its default
Type(kind, args, names) ==
    [kind |-> kind, args |-> args, names |-> names, defaults |-> <<>>]

\* dataclasses.Field.default and default_factory: MISSING for both, a default
\* value, or a factory and the value it makes
Missing == [kind |-> "missing", value |-> NULL]
Default(value) == [kind |-> "default", value |-> Some(value)]
DefaultFactory(value) == [kind |-> "default_factory", value |-> Some(value)]

IntType == Type("integer", <<>>, <<>>)
StrType == Type("string", <<>>, <<>>)
BoolType == Type("boolean", <<>>, <<>>)
FloatType == Type("number", <<>>, <<>>)
NoneType == Type("null", <<>>, <<>>)
EnumType(names) == Type("enum", <<>>, names)
ListType(item) == Type("array", <<item>>, <<>>)
DictType(item) == Type("dict", <<item>>, <<>>)
\* a dataclass whose fields declare the given defaults
DataclassTypeWithDefaults(names, types, defaults) ==
    [Type("dataclass", types, names) EXCEPT !.defaults = defaults]
\* a dataclass whose fields declare no default
DataclassType(names, types) ==
    DataclassTypeWithDefaults(names, types, [i \in 1..Len(names) |-> Missing])
UnionType(alternatives) == Type("union", alternatives, <<>>)
\* object: an annotation that no parser of defargparsers can parse
ObjectType == Type("object", <<>>, <<>>)

\* some parser of defargparsers answers can_parse(argtype) with True
CanParse(type) ==
    type.kind \in {"boolean", "dataclass", "dict", "enum", "number", "integer",
                   "array", "null", "string", "union"}

Json(t, v, items, keys) == [t |-> t, v |-> v, items |-> items, keys |-> keys]

JsonInt(v) == Json("int", v, <<>>, <<>>)
JsonBool(v) == Json("bool", v, <<>>, <<>>)
JsonStr(v) == Json("str", v, <<>>, <<>>)
JsonFloat(v) == Json("float", v, <<>>, <<>>)
JsonNull == Json("NoneType", "null", <<>>, <<>>)
JsonArray(items) == Json("list", "", items, <<>>)
JsonObject(keys, items) == Json("dict", "", items, keys)

\* what parse_value gives for an enum and for a dataclass
EnumMember(name) == Json("enum", name, <<>>, <<>>)
DataclassInstance(names, values) == Json("dataclass", "", values, names)

\* isinstance(value, cls): bool is a subclass of int
IsInstance(value, cls) ==
    IF cls = "int" THEN value.t \in {"int", "bool"} ELSE value.t = cls

\* parse_value returned value
Parsed(value) ==
    [raised |-> NoError, value |-> Some(value), response |-> NULL, schema |-> NULL]

\* parse_value raised a plain TypeError
RaiseTypeError ==
    [raised |-> TypeError, value |-> NULL, response |-> NULL, schema |-> NULL]

\* parse_value raised BrokenSchemaError(response, schema); the schema is
\* named by the type it was derived from
RaiseBrokenSchema(response, schema) ==
    [raised |-> BrokenSchemaError, value |-> NULL,
     response |-> Some(response), schema |-> Some(schema)]

\* an exception that carries neither a response nor a schema
RaiseError(error) ==
    [raised |-> error, value |-> NULL, response |-> NULL, schema |-> NULL]

\* raise BrokenSchemaError(response, <the schema property>): the schema is
\* derived when the exception is built, and an exception of the derivation
\* is raised in its place
RaiseWithDerived(response, schema, derivation) ==
    IF derivation.raised # NoError THEN RaiseError(derivation.raised)
    ELSE RaiseBrokenSchema(response, schema)

\* AtomicParser.parse_value
AtomicParseValue(cls, value) ==
    IF ~IsInstance(value, cls) THEN RaiseTypeError ELSE Parsed(value)

\* IntParser.parse_value without its isinstance(value, bool) check
IntParseValueUnchecked(type, value) == AtomicParseValue("int", value)

\* IntParser.parse_value
IntParseValue(type, value) ==
    IF IsInstance(value, "bool")
    THEN RaiseBrokenSchema(value, type)
    ELSE AtomicParseValue("int", value)

\* FloatParser.parse_value
FloatParseValue(value) ==
    IF ~IsInstance(value, "float") THEN RaiseTypeError ELSE Parsed(value)

\* NoneParser.parse_value
NoneParseValue(value) ==
    IF value # JsonNull THEN RaiseTypeError ELSE Parsed(JsonNull)

\* EnumParser.parse_value
EnumParseValue(type, value) ==
    IF ~IsInstance(value, "str") THEN RaiseBrokenSchema(value, type)
    ELSE IF \A i \in 1..Len(type.names) : type.names[i] # value.v
    THEN RaiseBrokenSchema(value, type)
    ELSE Parsed(EnumMember(value.v))

\* a JSON schema: its "type", the key that holds its sub-schemas ("items",
\* "additionalProperties", "anyOf", "properties") or names ("enum"), and its
\* "required" list
SchemaNode(type, key, sub, names, required) ==
    [type |-> type, key |-> key, sub |-> sub, names |-> names, required |-> required]

\* the schema was derived
Derived(schema) == [raised |-> NoError, schema |-> Some(schema), argtype |-> NULL]

\* the derivation raised the error, which names the type
CannotDerive(error, type) == [raised |-> error, schema |-> NULL, argtype |-> Some(type)]

\* the names of the fields of a dataclass that DataclassParser.required_fields
\* lists
RequiredNames(type) ==
    SelectSeq(type.names,
              LAMBDA n : type.defaults[CHOOSE i \in 1..Len(type.names) :
                                          type.names[i] = n].kind # "default")

RECURSIVE ArgumentSchema(_)
RECURSIVE SchemaEach(_, _)

\* parse_rec(argtype).argument_schema for argtype = types[i], types[i+1], ...:
\* parse_rec raises ValueError for a type no parser can parse
SchemaEach(types, i) ==
    IF i > Len(types) THEN Derived(<<>>)
    ELSE IF ~CanParse(types[i]) THEN CannotDerive(ValueError, types[i])
    ELSE LET r == ArgumentSchema(types[i]) IN
         IF r.raised # NoError THEN r
         ELSE LET rest == SchemaEach(types, i + 1) IN
              IF rest.raised # NoError THEN rest
              ELSE Derived(<<Get(r.schema)>> \o Get(rest.schema))

\* argument_schema of the parser of a type that some parser can parse
ArgumentSchema(type) ==
    LET sub == SchemaEach(type.args, 1) IN
    IF sub.raised # NoError THEN sub
    ELSE CASE type.kind = "enum" ->
                 Derived(SchemaNode("string", "enum", <<>>, type.names, <<>>))
           [] type.kind = "array" ->
                 Derived(SchemaNode("array", "items", Get(sub.schema), <<>>, <<>>))
           [] type.kind = "dict" ->
                 Derived(SchemaNode("object", "additionalProperties", Get(sub.schema),
                                    <<>>, <<>>))
           [] type.kind = "union" ->
                 Derived(SchemaNode("", "anyOf", Get(sub.schema), <<>>, <<>>))
           [] type.kind = "dataclass" ->
                 Derived(SchemaNode("object", "properties", Get(sub.schema),
                                    type.names, RequiredNames(type)))
           [] OTHER -> Derived(SchemaNode(type.kind, "", <<>>, <<>>, <<>>))

\* FunctionWrapper.argument_parsers: parse_argument raises
\* CannotParseTypeError for the first parameter whose annotation no parser
\* can parse
ArgumentParsers(types) ==
    IF \E i \in 1..Len(types) : ~CanParse(types[i])
    THEN CannotDerive(CannotParseTypeError,
                      types[CHOOSE i \in 1..Len(types) :
                               /\ ~CanParse(types[i])
                               /\ \A j \in 1..(i - 1) : CanParse(types[j])])
    ELSE Derived(<<>>)

\* FunctionWrapper.arguments_schema as it is derived: the parsers of all
\* parameters are looked up first, then the schema of each is taken
Properties(types) ==
    IF ArgumentParsers(types).raised # NoError THEN ArgumentParsers(types)
    ELSE SchemaEach(types, 1)

\* the exceptions contextlib.suppress(TypeError) of UnionParser swallows
SuppressedByUnion(error) == error = TypeError

\* the index of key in keys, 0 if it is not there
IndexOf(keys, key) ==
    IF \E i \in 1..Len(keys) : keys[i] = key
    THEN CHOOSE i \in 1..Len(keys) :
            keys[i] = key /\ \A j \in 1..(i - 1) : keys[j] # key
    ELSE 0

RECURSIVE ParseValue(_, _)
RECURSIVE ParseEach(_, _, _)
RECURSIVE UnionParseFrom(_, _, _)

\* parse_value of the parser of types[k] on values[k] for k = i, i+1, ...:
\* the first exception ends the comprehension
ParseEach(types, values, i) ==
    IF i > Len(values) THEN Parsed(<<>>)
    ELSE LET r == ParseValue(types[i], values[i]) IN
         IF r.raised # NoError THEN r
         ELSE LET rest == ParseEach(types, values, i + 1) IN
              IF rest.raised # NoError THEN rest
              ELSE Parsed(<<Get(r.value)>> \o Get(rest.value))

\* ListParser.parse_value
ListParseValue(type, value) ==
    IF ~IsInstance(value, "list") THEN RaiseTypeError
    ELSE LET r == ParseEach([i \in 1..Len(value.items) |-> type.args[1]],
                            value.items, 1)
         IN IF r.raised # NoError THEN r
            ELSE Parsed(JsonArray(Get(r.value)))

\* DictParser.parse_value
DictParseValue(type, value) ==
    IF ~IsInstance(value, "dict") THEN RaiseTypeError
    ELSE LET r == ParseEach([i \in 1..Len(value.items) |-> type.args[1]],
                            value.items, 1)
         IN IF r.raised # NoError THEN r
            ELSE Parsed(JsonObject(value.keys, Get(r.value)))

\* DataclassParser.required_fields: the indices of the fields whose
\* field.default is MISSING
RequiredFields(type) ==
    {i \in 1..Len(type.names) : type.defaults[i].kind # "default"}

\* the indices of the fields of the dataclass that the value has, in the
\* order of dataclasses.fields
PresentFields(type, value) ==
    SelectSeq([i \in 1..Len(type.names) |-> i],
              LAMBDA i : IndexOf(value.keys, type.names[i]) # 0)

\* DataclassParser.parse_value: the fields the value has are parsed in the
\* order of the dataclass, the others are left to the dataclass's __init__
DataclassParseValue(type, value) ==
    IF ~IsInstance(value, "dict")
    THEN RaiseWithDerived(value, type, ArgumentSchema(type))
    ELSE IF \E i \in RequiredFields(type) : IndexOf(value.keys, type.names[i]) = 0
    THEN RaiseWithDerived(value, type, ArgumentSchema(type))
    \* field in self.fields, for the first field of the value, derives the
    \* schemas of all fields
    ELSE IF value.keys # <<>> /\ SchemaEach(type.args, 1).raised # NoError
    THEN RaiseError(SchemaEach(type.args, 1).raised)
    ELSE IF \E i \in 1..Len(value.keys) : IndexOf(type.names, value.keys[i]) = 0
    THEN RaiseWithDerived(value, type, ArgumentSchema(type))
    ELSE LET present == PresentFields(type, value)
             given == [k \in 1..Len(present) |->
                          value.items[IndexOf(value.keys, type.names[present[k]])]]
             r == ParseEach([k \in 1..Len(present) |-> type.args[present[k]]],
                            given, 1)
         IN IF r.raised # NoError THEN r
            ELSE Parsed(DataclassInstance(type.names,
                    [i \in 1..Len(type.names) |->
                        IF IndexOf(present, i) # 0
                        THEN Get(r.value)[IndexOf(present, i)]
                        ELSE Get(type.defaults[i].value)]))

\* UnionParser.parse_value from alternative i on
UnionParseFrom(type, value, i) ==
    IF i > Len(type.args) THEN RaiseTypeError
    ELSE LET r == ParseValue(type.args[i], value) IN
         IF SuppressedByUnion(r.raised)
         THEN UnionParseFrom(type, value, i + 1)
         ELSE r

\* UnionParser.parse_value
UnionParseValue(type, value) == UnionParseFrom(type, value, 1)

\* parse_rec(argtype).parse_value(value): the parser that can_parse the type
ParseValue(type, value) ==
    CASE type.kind = "integer" -> IntParseValue(type, value)
      [] type.kind = "string" -> AtomicParseValue("str", value)
      [] type.kind = "boolean" -> AtomicParseValue("bool", value)
      [] type.kind = "number" -> FloatParseValue(value)
      [] type.kind = "null" -> NoneParseValue(value)
      [] type.kind = "enum" -> EnumParseValue(type, value)
      [] type.kind = "array" -> ListParseValue(type, value)
      [] type.kind = "dict" -> DictParseValue(type, value)
      [] type.kind = "dataclass" -> DataclassParseValue(type, value)
      [] type.kind = "union" -> UnionParseValue(type, value)
      [] OTHER -> RaiseError(ValueError)

\* FunctionWrapper.arguments_schema, named by the parameters it is derived
\* from
ArgumentsSchema(names, types) == Type("arguments", types, names)

RECURSIVE ParseArgumentsFrom(_, _, _, _)
\* parse_arguments: the OrderedDict built from arguments.items(), from item
\* j on; a name without a parser is a KeyError, raised again as
\* BrokenSchemaError
ParseArgumentsFrom(names, types, arguments, j) ==
    IF j > Len(arguments.keys) THEN Parsed(<<>>)
    ELSE LET k == IndexOf(names, arguments.keys[j]) IN
         IF k = 0
         THEN RaiseWithDerived(arguments, ArgumentsSchema(names, types),
                               Properties(types))
         ELSE LET r == ParseValue(types[k], arguments.items[j]) IN
              IF r.raised # NoError THEN r
              ELSE LET rest == ParseArgumentsFrom(names, types, arguments, j + 1) IN
                   IF rest.raised # NoError THEN rest
                   ELSE Parsed(<<Get(r.value)>> \o Get(rest.value))

\* FunctionWrapper.parse_arguments
ParseArguments(names, types, arguments) ==
    IF ArgumentParsers(types).raised # NoError
    THEN RaiseError(ArgumentParsers(types).raised)
    ELSE IF \E i \in 1..Len(names) : IndexOf(arguments.keys, names[i]) = 0
    THEN RaiseWithDerived(arguments, ArgumentsSchema(names, types), Properties(types))
    ELSE ParseArgumentsFrom(names, types, arguments, 1)

(***************************************************************************)
(* FunctionWrapper in full: the callable with its signature and docstring, *)
(* the overrides given at registration, the schema derived from them and   *)
(* the call with decoded arguments.                                        *)
(***************************************************************************)
\* a Python callable: its __name__, the short description of its docstring
\* (NULL without a docstring), the names, annotations and defaults of its
\* parameters (TRUE for a parameter with a default), and what its body
\* returns
Callable(id, name, doc, names, types, defaults, body) ==
    [id |-> id, __name__ |-> name, __doc__ |-> doc, names |-> names,
     types |-> types, defaults |-> defaults, body |-> body]

\* x or y of Python for optional texts: None and "" are false
Or(x, y) == IF x # NULL /\ Get(x) # "" THEN x ELSE y

\* FunctionWrapper.name
WrapperName(func, name) == Get(Or(name, Some(func.__name__)))

\* FunctionWrapper(func, config, name, description), as add_function builds it
Wrapped(uid, func, config, name, description) ==
    [uid |-> uid, name |-> WrapperName(func, name),
     save_return |-> config.save_return, serialize |-> config.serialize,
     remove_call |-> config.remove_call,
     interpret_as_response |-> config.interpret_as_response,
     func |-> func, _name |-> name, _description |-> description]

\* required_arguments that lists every parameter
RequiredArgumentsAll(func) == func.names

\* FunctionWrapper.required_arguments
RequiredArguments(func) ==
    SelectSeq(func.names,
              LAMBDA n : ~func.defaults[CHOOSE i \in 1..Len(func.names) :
                                           func.names[i] = n])

\* the "description" of FunctionWrapper.schema, NULL when the key is left out
Description(function) ==
    LET d == Or(function.func.__doc__, function._description) IN
    IF d # NULL /\ Get(d) # "" THEN d ELSE NULL

\* FunctionWrapper.schema: the derived schema, or the exception of the
\* derivation
Schema(function) ==
    LET properties == Properties(function.func.types) IN
    IF properties.raised # NoError THEN properties
    ELSE Derived([name |-> function.name,
                  parameters |-> SchemaNode("object", "properties",
                                            Get(properties.schema),
                                            function.func.names,
                                            RequiredArguments(function.func)),
                  description |-> Description(function)])

\* int(text) for the decimal text of a small number
IntOf(text) == CHOOSE n \in 0..MaxInt : ToString(n) = text

\* the callable called with the parsed arguments, given by keyword
Body(func, keys, values) ==
    CASE func.body = "a + b" ->
            JsonInt(ToString(IntOf(values[IndexOf(keys, "a")].v)
                             + IntOf(values[IndexOf(keys, "b")].v)))
      [] func.body = "p" -> values[IndexOf(keys, "p")]
      [] OTHER -> JsonNull

\* FunctionWrapper.__call__
Call(function, arguments) ==
    LET r == ParseArguments(function.func.names, function.func.types, arguments) IN
    IF r.raised # NoError THEN r
    ELSE Parsed(Body(function.func, arguments.keys, Get(r.value)))

\* FunctionWrapper.__call__ of a function with the one parameter p of the
\* given type: the callable is called iff parse_arguments returns
Invocation(type, arguments) ==
    LET r == ParseArguments(<<"p">>, <<type>>, arguments) IN
    [kind |-> IF r.raised = NoError THEN "called" ELSE "raised",
     type |-> Some(type), arguments |-> Some(arguments),
     raised |-> r.raised, value |-> r.value,
     response |-> r.response, schema |-> r.schema]

\* the annotations of p
Atoms == {IntType, StrType, BoolType, FloatType, NoneType}
Color == EnumType(<<"RED">>)
Point == DataclassType(<<"x">>, <<IntType>>)
\* a dataclass with x: int, y: int = 7 and
\* z: List[int] = field(default_factory=list)
Record ==
    DataclassTypeWithDefaults(<<"x", "y", "z">>, <<IntType, IntType, ListType(IntType)>>,
        <<Missing, Default(JsonInt("7")), DefaultFactory(JsonArray(<<>>))>>)
Containers == {ListType(IntType), ListType(StrType), DictType(IntType), DictType(StrType)}
Alternatives == Atoms \cup {Color, Point} \cup Containers
Unions == {UnionType(<<a, b>>) : a, b \in Alternatives} \ {UnionType(<<a, a>>) : a \in Alternatives}
Nested ==
    {ListType(UnionType(<<IntType, StrType>>)),
     DictType(UnionType(<<FloatType, IntType>>)),
     UnionType(<<IntType, StrType, NoneType>>),
     Record, ListType(Record)}
\* a dataclass with the field x: object
Container == DataclassType(<<"x">>, <<ObjectType>>)
\* annotations that no parser can parse, or that hold such a type
Unparseable ==
    {ObjectType, ListType(ObjectType), DictType(ObjectType),
     UnionType(<<IntType, ObjectType>>), Container, ListType(Container)}
ParameterTypes == Alternatives \cup Unions \cup Nested \cup Unparseable

\* JSON objects with some of the fields x, y, z of Record, and w that it
\* does not have
RecordValues ==
    {JsonObject(<<"x", "z">>, <<JsonInt("1"), JsonArray(<<>>)>>),
     JsonObject(<<"z", "y", "x">>,
                <<JsonArray(<<JsonInt("1")>>), JsonInt("1"), JsonInt("1")>>),
     JsonObject(<<"y", "z">>, <<JsonInt("1"), JsonArray(<<>>)>>),
     JsonObject(<<"x", "z", "w">>, <<JsonInt("1"), JsonArray(<<>>), JsonInt("1")>>),
     JsonObject(<<"x", "z">>, <<JsonStr("hello"), JsonArray(<<>>)>>),
     JsonObject(<<"x", "y", "z">>, <<JsonInt("1"), JsonStr("hello"), JsonArray(<<>>)>>),
     JsonObject(<<"x", "z">>, <<JsonInt("1"), JsonArray(<<JsonBool("true")>>)>>),
     JsonArray(<<JsonObject(<<"x", "z">>, <<JsonInt("1"), JsonArray(<<>>)>>)>>)}

\* the JSON values the backend may give for p
JsonValues ==
    {JsonInt("1"), JsonBool("true"), JsonBool("false"), JsonStr("RED"),
     JsonStr("hello"), JsonFloat("1.5"), JsonNull,
     JsonArray(<<JsonInt("1")>>), JsonArray(<<JsonInt("1"), JsonBool("true")>>),
     JsonArray(<<JsonInt("1"), JsonStr("test")>>),
     JsonObject(<<"x">>, <<JsonInt("1")>>), JsonObject(<<"x">>, <<JsonBool("true")>>),
     JsonObject(<<"y">>, <<JsonStr("a")>>)}
    \cup RecordValues

\* the arguments of the call: p alone, nothing, or p and a name the
\* function does not have
ArgumentObjects ==
    {JsonObject(<<"p">>, <<v>>) : v \in JsonValues}
    \cup {JsonObject(<<>>, <<>>)}
    \cup {JsonObject(<<"p", "q">>, <<v, v>>) : v \in {JsonInt("1"), JsonBool("true")}}

\* a call of the FunctionWrapper that has not been made yet
Pending(type, arguments) ==
    [kind |-> "pending", type |-> Some(type), arguments |-> Some(arguments),
     raised |-> NoError, value |-> NULL, response |-> NULL, schema |-> NULL]

\* the FunctionWrapper is called with the arguments
Invoke ==
    /\ invocation.kind = "pending"
    /\ invocation' = Invocation(Get(invocation.type), Get(invocation.arguments))
    /\ UNCHANGED <<messages, pc, op, retries, requests, sleeps, sleptBefore,
                   resolved, popped, outcome>>
    /\ UNCHANGED setVars

\* def fn(p: type): return p, wrapped
OneParameter(type) ==
    Wrapped(1, Callable(1, "fn", NULL, <<"p">>, <<type>>, <<FALSE>>, "p"),
            DefaultConfig, NULL, NULL)

\* FunctionWrapper.schema is read: the schema, or the exception and the type
\* it names
SchemaAccess(type, arguments) ==
    LET d == Schema(OneParameter(type)) IN
    [kind |-> IF d.raised = NoError THEN "schema" ELSE "underivable",
     type |-> Some(type), arguments |-> Some(arguments),
     raised |-> d.raised, value |-> NULL,
     response |-> d.argtype, schema |-> d.schema]

\* the schema of the FunctionWrapper is read before any call
DeriveSchema ==
    /\ invocation.kind = "pending"
    /\ invocation' = SchemaAccess(Get(invocation.type), Get(invocation.arguments))
    /\ UNCHANGED <<messages, pc, op, retries, requests, sleeps, sleptBefore,
                   resolved, popped, outcome>>
    /\ UNCHANGED setVars

\* ParseSpec: FunctionWrappers of one parameter, called with JSON arguments
ParseInit ==
    /\ sets = <<>>
    /\ functions = <<>>
    /\ last = NoOperation
    /\ nextUid = 1
    /\ InitConversation
    /\ \E type \in ParameterTypes, arguments \in ArgumentObjects :
          invocation = Pending(type, arguments)

ParseNext == Invoke \/ DeriveSchema

ParseSpec == ParseInit /\ [][ParseNext]_vars

(***************************************************************************)
(* RegSpec: a BasicFunctionSet of FunctionWrappers in full, under          *)
(* add_function, remove_function, functions_schema and run_function.       *)
(***************************************************************************)
\* def add(a: int, b: int): return a + b
add ==
    Callable(1, "add", NULL, <<"a", "b">>, <<IntType, IntType>>, <<FALSE, FALSE>>,
             "a + b")
\* def sub(a: int, b: int = 2): """Subtract."""
sub ==
    Callable(2, "sub", Some("Subtract."), <<"a", "b">>, <<IntType, IntType>>,
             <<FALSE, TRUE>>, "None")
\* def bad(p: object): return p
bad == Callable(3, "bad", NULL, <<"p">>, <<ObjectType>>, <<FALSE>>, "p")

Callables == {add, sub, bad}

\* add_function(callable, name=..., description=...) as RegSpec calls it
Registrations ==
    {[func |-> f, name |-> n, description |-> d] :
        f \in {add, sub}, n \in {NULL, Some("N")}, d \in {NULL, Some("D")}}
    \cup {[func |-> bad, name |-> NULL, description |-> NULL]}

\* the argument strings of the calls
AddArguments == "{\"a\":1,\"b\":2}"
PartialArguments == "{\"a\":1}"
ExtraArguments == "{\"a\":1,\"b\":2,\"c\":3}"

\* json.loads for the argument strings of the model
JsonLoads(text) ==
    CASE text = AddArguments ->
            Parsed(JsonObject(<<"a", "b">>, <<JsonInt("1"), JsonInt("2")>>))
      [] text = PartialArguments -> Parsed(JsonObject(<<"a">>, <<JsonInt("1")>>))
      [] text = ExtraArguments ->
            Parsed(JsonObject(<<"a", "b", "c">>,
                              <<JsonInt("1"), JsonInt("2"), JsonInt("3")>>))
      [] text = ValidArguments -> Parsed(JsonObject(<<>>, <<>>))
      [] OTHER -> RaiseError(InvalidJsonError)

\* json.dumps of a JSON value that is not a container
Dumps(value) == IF value.t = "str" THEN JsonDumps(value.v) ELSE value.v

\* RawFunctionResult.serialized for a JSON value
SerializedValue(raw_result) ==
    IF raw_result.serialize THEN Dumps(raw_result.result) ELSE raw_result.result.v

\* BasicFunctionSet.run_function on FunctionWrappers in full
RunFunction(fs, input_data) ==
    LET i == FindFunction(fs, input_data.name) IN
    IF i = 0 THEN [raised |-> RaisedNotFound, result |-> NULL, ran |-> <<>>]
    ELSE LET arguments == JsonLoads(input_data.arguments) IN
         IF arguments.raised # NoError
         THEN [raised |-> InvalidJsonError, result |-> NULL, ran |-> <<>>]
         ELSE LET function == fs[i]
                  r == Call(function, Get(arguments.value))
              IN IF r.raised # NoError
                 THEN [raised |-> r.raised, result |-> NULL, ran |-> <<>>]
                 ELSE [raised |-> NoError,
                       result |->
                          Some(FunctionResult(function.name,
                                  IF function.save_return
                                  THEN Some(RawFunctionResult(Get(r.value),
                                                              function.serialize))
                                  ELSE NULL,
                                  function.remove_call,
                                  function.interpret_as_response)),
                       ran |-> <<function.uid>>]

\* BasicFunctionSet.functions_schema on FunctionWrappers in full: the schemas
\* in order, or the exception of the first schema that cannot be derived
FunctionsSchema(fs) ==
    IF \E i \in 1..Len(fs) : Schema(fs[i]).raised # NoError
    THEN Schema(fs[CHOOSE i \in 1..Len(fs) :
                      /\ Schema(fs[i]).raised # NoError
                      /\ \A j \in 1..(i - 1) : Schema(fs[j]).raised = NoError])
    ELSE Derived([i \in 1..Len(fs) |-> Get(Schema(fs[i]).schema)])

\* the name remove_function hands to _remove_function: the str itself, the
\* name of an OpenAIFunction, the __name__ of any other callable
RemovedName(function) ==
    CASE function.is = "str" -> function.name
      [] function.is = "OpenAIFunction" -> function.function.name
      [] OTHER -> function.function.__name__

\* what remove_function is called with in RegSpec: a name, a registered
\* FunctionWrapper, or a callable
Removable ==
    {[is |-> "str", name |-> n, function |-> NULL] : n \in {"add", "sub", "N"}}
    \cup {[is |-> "OpenAIFunction", name |-> "", function |-> functions[i]] :
             i \in 1..Len(functions)}
    \cup {[is |-> "callable", name |-> "", function |-> f] : f \in Callables}

\* the calls of RegSpec
RegCalls ==
    {FunctionCall(n, a) : n \in {"add", "N", "bad", UnknownName},
                          a \in {AddArguments, PartialArguments, ExtraArguments,
                                 InvalidArguments}}

\* add_function(callable, name=name, description=description): the wrapper
\* is appended and the callable returned
Register(func, name, description) ==
    /\ nextUid <= MaxRegistered
    /\ functions' = AddTo(functions, Wrapped(nextUid, func, DefaultConfig, name,
                                             description))
    /\ nextUid' = nextUid + 1
    /\ last' = Operation("add", 0, WrapperName(func, name), NoError, Some(func), <<>>)
    /\ UNCHANGED sets
    /\ UNCHANGED engineVars

\* what isinstance(function, OpenAIFunction) raises in remove_function: the
\* protocol is runtime checkable, and an interpreter that checks it with hasattr
\* reads function.schema, whose derivation error escapes; one that looks the
\* attribute up statically raises nothing
IsOpenAIFunctionRaises(function) ==
    IF function.is = "OpenAIFunction"
    THEN {NoError, Schema(function.function).raised}
    ELSE {NoError}

\* remove_function(function)
Unregister(function) ==
    \E raised \in IsOpenAIFunctionRaises(function) :
        /\ functions' = IF raised = NoError
                        THEN RemoveFrom(functions, RemovedName(function))
                        ELSE functions
        /\ last' = Operation("remove", 0, RemovedName(function), raised,
                             Some(function), <<>>)
        /\ UNCHANGED <<sets, nextUid>>
        /\ UNCHANGED engineVars

\* functions_schema is read
ReadSchema ==
    LET d == FunctionsSchema(functions) IN
    /\ last' = Operation("schema", 0, "", d.raised, d.schema, <<>>)
    /\ UNCHANGED <<sets, functions, nextUid>>
    /\ UNCHANGED engineVars

\* run_function(input_data)
RunRegistered(input_data) ==
    LET o == RunFunction(functions, input_data) IN
    /\ last' = Operation("run", 0, input_data.name, o.raised, o.result, o.ran)
    /\ UNCHANGED <<sets, functions, nextUid>>
    /\ UNCHANGED engineVars

RegNext ==
    \/ \E r \in Registrations : Register(r.func, r.name, r.description)
    \/ \E function \in Removable : Unregister(function)
    \/ ReadSchema
    \/ \E c \in RegCalls : RunRegistered(c)

\* BasicFunctionSet(): no function yet
RegInit ==
    /\ sets = <<>>
    /\ functions = <<>>
    /\ last = NoOperation
    /\ nextUid = 1
    /\ InitEngine

RegSpec == RegInit /\ [][RegNext]_vars

(***************************************************************************)
(* Claims about the function sets (checked under SetSpec)                  *)
(***************************************************************************)
\* the set has a function of that name registered
Contains(set, name) == FindFunction(set.functions, name) # 0

\* the set answers a call of that name: a BasicFunctionSet that contains it,
\* an enabled TogglableSet that contains it, a disabled one's enable function
Exposes(set, name) ==
    IF set.kind = "togglable" /\ ~set.enabled THEN name = set.enable_function_name
    ELSE Contains(set, name)

UnionRan == last.op = "run" /\ last.target = 0

\* C7: UnionSkillSet.run_function propagates function-not-found only when no
\* child set and not the local set has the name: a miss in a child falls
\* through to the next child and finally to the local set.
C7_NotFoundOnlyIfAllMiss ==
    (UnionRan /\ last.raised \in {FunctionNotFoundError, FunctionsFunctionNotFoundError}) =>
        /\ \A i \in 1..Len(last.sets) : ~Exposes(last.sets[i], last.name)
        /\ FindFunction(last.functions, last.name) = 0

\* C8: for child sets [S1, S2] that both contain a function named f,
\* UnionSkillSet.run_function for f never invokes S2's version, and with valid
\* arguments invokes exactly S1's version (so with the order swapped, S2's).
FirstUid(set, name) == set.functions[FindFunction(set.functions, name)].uid

BothContain ==
    /\ UnionRan
    /\ Len(last.sets) = 2
    /\ Contains(last.sets[1], last.name) /\ Exposes(last.sets[1], last.name)
    /\ Contains(last.sets[2], last.name)

C8_FirstSetWins ==
    BothContain =>
        /\ \A k \in 1..Len(last.ran) :
              \A j \in 1..Len(last.sets[2].functions) :
                 last.ran[k] # last.sets[2].functions[j].uid
        /\ last.result # NULL => last.ran = <<FirstUid(last.sets[1], last.name)>>
        /\ last.raised \in {NoError, InvalidJsonError}
        /\ last.raised = NoError <=> last.result # NULL

\* C8 witness: the children are [S2, S1], both contain f, and S2's f was run
C8_Witness ==
    /\ BothContain
    /\ last.sets[1].sid = "S2" /\ last.sets[2].sid = "S1"
    /\ last.name = "f"
    /\ last.ran = <<2>>

\* a run_function call made on a TogglableSet itself
TogglableRan ==
    /\ last.op = "run"
    /\ last.target > 0
    /\ last.sets[last.target].kind = "togglable"

\* C9: while a TogglableSet is disabled its functions_schema holds only the
\* enable function's schema, and a call to any other name signals
\* function-not-found and runs nothing; once enabled, functions_schema lists
\* the schemas of all members and a call to a member's name runs that member.
C9_Gating ==
    /\ \A i \in 1..Len(sets) :
          sets[i].kind = "togglable" =>
             IF sets[i].enabled
             THEN /\ Len(SetFunctionsSchema(sets[i])) = Len(sets[i].functions)
                  /\ \A j \in 1..Len(sets[i].functions) :
                        SetFunctionsSchema(sets[i])[j] = FunctionSchema(sets[i].functions[j])
             ELSE SetFunctionsSchema(sets[i]) =
                     <<[name |-> sets[i].enable_function_name, description |-> NULL,
                        fn |-> 0]>>
    /\ TogglableRan =>
          LET before == last.sets[last.target] IN
          IF ~before.enabled
          THEN last.name # before.enable_function_name =>
                  /\ last.raised = FunctionNotFoundError
                  /\ last.ran = <<>>
                  /\ last.result = NULL
          ELSE Contains(before, last.name) =>
                  /\ last.raised \in {NoError, InvalidJsonError}
                  /\ last.raised = NoError =>
                        /\ last.ran = <<FirstUid(before, last.name)>>
                        /\ last.result # NULL
                        /\ Get(last.result).name = last.name

\* C9 witness: a member of an enabled TogglableSet was run by a call on it
C9_Witness ==
    /\ TogglableRan
    /\ last.sets[last.target].enabled
    /\ Contains(last.sets[last.target], last.name)
    /\ last.ran # <<>>

\* C10: the enabled flag of a TogglableSet starts false, is set only by a
\* call to the enable function, and once true stays true under every
\* run_function, add_function and remove_function call; a failing call on a
\* disabled set leaves it false.
EnabledStepOk ==
    \A i \in 1..Len(sets) :
       sets[i].kind = "togglable" =>
          /\ sets[i].enabled => sets'[i].enabled
          /\ (~sets[i].enabled /\ sets'[i].enabled) =>
                /\ last'.op = "run"
                /\ last'.target \in {0, i}
                /\ last'.name = sets[i].enable_function_name
                /\ last'.raised = NoError
          /\ (last'.op = "run" /\ last'.raised # NoError) =>
                sets'[i].enabled = sets[i].enabled

C10_EnabledMonotonic ==
    /\ \A i \in 1..Len(sets) : sets[i].kind = "togglable" => ~sets[i].enabled
    /\ [][EnabledStepOk]_vars

\* C10 witness: a call failed, or a function was removed, on a TogglableSet
\* that was already enabled
C10_Witness ==
    \E i \in 1..Len(sets) :
       /\ sets[i].kind = "togglable"
       /\ last.sets # <<>> /\ last.sets[i].enabled
       /\ sets[i].enabled
       /\ \/ last.op = "remove" /\ last.target = i
          \/ last.op = "run" /\ last.target = i /\ last.raised # NoError

(***************************************************************************)
(* Claims about the Conversation engine (checked under Spec and RetrySpec) *)
(***************************************************************************)
LastMessage == messages[Len(messages)]

IsToolCall(m) == m.function_call # NULL

\* the descriptors registered with the Conversation
Registered ==
    {functions[i] : i \in 1..Len(functions)}
    \cup UNION {{sets[k].functions[i] : i \in 1..Len(sets[k].functions)} :
                  k \in 1..Len(sets)}

SavesReturn(m) ==
    \E d \in Registered : d.name = Get(m.function_call).name /\ d.save_return

RemovesCall(m) ==
    \E d \in Registered : d.name = Get(m.function_call).name /\ d.remove_call

InterpretsAsResponse(m) ==
    \E d \in Registered : d.name = Get(m.function_call).name /\ d.interpret_as_response

\* C1: run_until_response returns only when the last message of the
\* conversation is an assistant message with content that is no tool call,
\* and the message it returns is that last message.
C1_ReturnsFinalResponse ==
    (op.name = "run_until_response" /\ outcome.kind = "returned") =>
        /\ messages # <<>>
        /\ LastMessage.role = "assistant"
        /\ LastMessage.content # NULL
        /\ LastMessage.function_call = NULL
        /\ MessageFunctionCall(LastMessage) = NULL
        /\ outcome.message = Some(LastMessage)

\* C1 witness: run_until_response returned the result of a function that is
\* interpreted as the response, after a reply of the backend that was a
\* tool call
C1_Witness ==
    /\ op.name = "run_until_response"
    /\ outcome.kind = "returned"
    /\ resolved # NULL
    /\ Len(messages) >= 2
    /\ IsToolCall(messages[Len(messages) - 1])

C3_NoBackendAfterResolution ==
    resolved # NULL => (pc # "request" /\ requests = 0)

\* C3 amended: when a generate_message step with call-mode auto or none
\* resolved a tool call and the result has content, the result message is
\* appended and is the step's result, and the backend is not contacted; when
\* the result has no content (save_return = false), the backend is contacted
\* in the same step.
C3_BackendOnlyWithoutContent ==
    resolved # NULL =>
       IF Content(Get(resolved)) # NULL
       THEN /\ pc # "request"
            /\ requests = 0
            /\ LastMessage.content = Content(Get(resolved))
            /\ LastMessage.role \in {"function", "assistant"}
            /\ pc = "idle" => outcome = Returned(LastMessage)
       ELSE /\ pc = "request" \/ requests >= 1
            /\ (pc = "idle" /\ outcome.kind = "returned") =>
                  /\ outcome.message = Some(LastMessage)
                  /\ requests >= 1

\* C3 witness: a step resolved a tool call without content and returned the
\* backend's reply
C3_Witness ==
    /\ resolved # NULL
    /\ Content(Get(resolved)) = NULL
    /\ pc = "idle"
    /\ outcome.kind = "returned"
    /\ requests = 1

C5_RetryBudgetPerCall ==
    op.retries # NULL =>
       LET n == Get(op.retries) IN
       /\ requests <= n + 1
       /\ sleeps <= n
       /\ pc = "request" =>
             /\ sleeps = requests
             /\ retries = n - sleeps
       /\ outcome.error = RateLimitError => (requests = n + 1 /\ sleeps = n)
       /\ (pc = "idle" /\ outcome.kind = "returned" /\ requests >= 1) =>
             sleeps = requests - 1

\* C5 witness: in a run_until_response call with budget 1, a generate_message
\* call that followed one that had slept made its own delayed retry and then
\* re-raised
C5_Witness ==
    /\ op.name = "run_until_response"
    /\ op.retries = Some(1)
    /\ sleptBefore
    /\ outcome.error = RateLimitError
    /\ sleeps = 1
    /\ requests = 2

\* C6: with retries = None generate_message never re-raises a rate-limit
\* failure: it sleeps after every failed request and sends the next one, and
\* it returns the backend's reply as soon as a request succeeds; so it
\* returns if the backend stops rate-limiting.
UnlimitedOk ==
    op.retries = NULL =>
       /\ outcome.error # RateLimitError
       /\ pc = "request" => (~Exhausted(retries) /\ sleeps = requests)
       /\ (pc = "idle" /\ outcome.kind = "returned" /\ requests >= 1) =>
             /\ sleeps = requests - 1
             /\ outcome.message = Some(LastMessage)

C6_UnlimitedRetries ==
    /\ []UnlimitedOk
    /\ (/\ pc = "request"
        /\ op.name = "generate_message"
        /\ op.retries = NULL
        /\ Len(messages) < MaxMessages)
          ~> (pc = "idle" /\ outcome.kind = "returned")

\* C6 witness: with retries = None a reply was returned after more failed
\* requests than the largest finite budget allows
C6_Witness ==
    /\ op.retries = NULL
    /\ pc = "idle"
    /\ outcome.kind = "returned"
    /\ sleeps > MaxRetries

\* the step in progress resolved a call of the enable function
EnableResolved == resolved # NULL /\ Get(resolved).name = EnableName

\* C11 as stated: the result of the enable function has no content and is
\* flagged interpret-as-response, and its resolution leaves the tool call
\* in the conversation.
C11_EnableIsResponse ==
    EnableResolved =>
       /\ Content(Get(resolved)) = NULL
       /\ Get(resolved).interpret_return_as_response
       /\ popped = NULL

\* the engine step that resolves a call of the enable function
EnableResolutionOk ==
    (pc = "enter" /\ resolved' # NULL /\ Get(resolved').name = EnableName) =>
       /\ \E k \in 1..Len(sets) :
             /\ sets[k].kind = "togglable"
             /\ ~sets[k].enabled
             /\ sets' = [sets EXCEPT ![k].enabled = TRUE]
       /\ Get(resolved').raw_result = NULL
       /\ Content(Get(resolved')) = NULL
       /\ Get(resolved').remove_call
       /\ ~Get(resolved').interpret_return_as_response
       /\ messages' = SubSeq(messages, 1, Len(messages) - 1)
       /\ popped' # NULL
       /\ Get(popped').function_call = messages[Len(messages)].function_call
       /\ pc' = "request"

\* C11 amended: calling the enable function of a disabled TogglableSet sets
\* the enabled flag and yields a result with no content, remove_call = true
\* and interpret_return_as_response = false; when the engine resolves that
\* tool call, the tool-call message is removed from the conversation,
\* nothing is appended, and the backend is asked for the next message in the
\* same step.
C11_EnableRemovesCall == [][EnableResolutionOk]_vars

\* C11 witness: a call of the enable function was resolved, its message is
\* gone, the set is enabled and the backend's reply was returned
C11_Witness ==
    /\ EnableResolved
    /\ popped # NULL
    /\ \E k \in 1..Len(sets) : sets[k].kind = "togglable" /\ sets[k].enabled
    /\ pc = "idle"
    /\ outcome.kind = "returned"
    /\ requests = 1

\* the step in progress resolved a call whose result is taken as the response
ResponseResolved ==
    /\ resolved # NULL
    /\ Get(resolved).interpret_return_as_response
    /\ Get(resolved).raw_result # NULL

\* C12 as stated: for a function with interpret_as_response = true (other
\* options at their defaults) that returns the string done, resolving a tool
\* call to it appends an assistant message whose content is exactly done.
C12_ContentIsReturnValue ==
    ResponseResolved =>
       /\ LastMessage.role = "assistant"
       /\ LastMessage.content = Some(ReturnValue)

\* C12 amended: with serialize at its default true the content of the
\* appended assistant message is the JSON text of the returned string, the
\* string done in double quotes, and not the string itself;
\* run_until_response returns that message.
C12_ContentIsJsonText ==
    ResponseResolved =>
       /\ LastMessage.role = "assistant"
       /\ LastMessage.function_call = NULL
       /\ LastMessage.content = Some("\"done\"")
       /\ LastMessage.content # Some(ReturnValue)
       /\ Content(Get(resolved)) = LastMessage.content
       /\ pc = "idle"
       /\ outcome = Returned(LastMessage)

\* C12 witness: run_until_response returned the message made of the result
\* of a function with interpret_as_response = true and the other options at
\* their defaults
C12_Witness ==
    /\ ResponseResolved
    /\ ~Get(resolved).remove_call
    /\ op.name = "run_until_response"
    /\ outcome.kind = "returned"
    /\ Len(messages) >= 2
    /\ IsToolCall(messages[Len(messages) - 1])

\* the engine step resolves the last message's call to a registered function
\* whose save_return is false
UnsavedResolution ==
    /\ pc = "enter"
    /\ resolved' # NULL
    /\ \E d \in Registered : d.name = Get(resolved').name /\ ~d.save_return

\* what the resolution of a call to a function with save_return = false does
UnsavedResolutionOk ==
    UnsavedResolution =>
       LET call == messages[Len(messages)]
           ran == [call EXCEPT !.runs = @ + 1]
       IN /\ IsToolCall(call)
          /\ Get(call.function_call).name = Get(resolved').name
          /\ Get(resolved').raw_result = NULL
          /\ Content(Get(resolved')) = NULL
          /\ IF Get(resolved').remove_call
             THEN /\ messages' = SubSeq(messages, 1, Len(messages) - 1)
                  /\ popped' = Some(ran)
             ELSE /\ messages' = [messages EXCEPT ![Len(messages)] = ran]
                  /\ popped' = NULL
          /\ \A i \in 1..Len(messages') :
                messages'[i].role \in {"function", "assistant"} =>
                   /\ i <= Len(messages)
                   /\ messages'[i].role = messages[i].role
                   /\ messages'[i].content = messages[i].content
          /\ pc' = "request"

\* C13: when the engine resolves a tool call to a function registered with
\* save_return = false, the function is executed (once in that step), its
\* result carries no content, and the resolution appends no function-result
\* message and no assistant message to the conversation.
C13_UnsavedAppendsNothing == [][UnsavedResolutionOk]_vars

\* C13 witness: a call to a function with save_return = false was resolved,
\* the call is still the last message and was run once, and no result
\* follows it
C13_Witness ==
    /\ resolved # NULL
    /\ Get(resolved).name \in FunctionNames
    /\ Get(resolved).raw_result = NULL
    /\ popped = NULL
    /\ pc = "request"
    /\ IsToolCall(LastMessage)
    /\ LastMessage.runs = 1

\* what the resolution of a call to a function with remove_call = true does
RemovingResolutionOk ==
    (pc = "enter" /\ resolved' # NULL /\ Get(resolved').remove_call) =>
       LET n == Len(messages)
           function_result == Get(resolved')
       IN /\ IsToolCall(messages[n])
          /\ popped' # NULL
          /\ Get(popped').function_call = messages[n].function_call
          /\ SubSeq(messages', 1, n - 1) = SubSeq(messages, 1, n - 1)
          /\ IF Content(function_result) = NULL
             THEN Len(messages') = n - 1
             ELSE /\ Len(messages') = n
                  /\ ~IsToolCall(messages'[n])
                  /\ messages'[n].content = Content(function_result)
                  /\ messages'[n].role =
                        IF function_result.interpret_return_as_response
                        THEN "assistant" ELSE "function"

\* C14: when the resolved function has remove_call = true, the tool-call
\* message that was last is removed before anything is appended: after the
\* step it is absent, the earlier messages are unchanged and in the same
\* order, and the result message, if there is one, is at the position the
\* tool call had.
C14_CallRemovedBeforeAppend == [][RemovingResolutionOk]_vars

\* C14 witness: a tool call that followed an earlier message was removed and
\* the function-result message took its place
C14_Witness ==
    /\ popped # NULL
    /\ resolved # NULL
    /\ Content(Get(resolved)) # NULL
    /\ Len(messages) >= 2
    /\ LastMessage.role = "function"
    /\ LastMessage.name = Some(Get(Get(popped).function_call).name)
    /\ pc = "idle"

\* a message as the conversation holds it
Plain(m) ==
    [role |-> m.role, content |-> m.content,
     function_call |-> m.function_call, name |-> m.name]

PlainMessages(ms) == [i \in 1..Len(ms) |-> Plain(ms[i])]

IsPrefix(a, b) == Len(a) <= Len(b) /\ SubSeq(b, 1, Len(a)) = a

\* a step keeps every message at its index and appends only, or it is a
\* resolution with remove_call = true that pops the last message, a tool
\* call, and keeps the others
AppendOnlyStepOk ==
    LET before == PlainMessages(messages)
        after == PlainMessages(messages')
    IN \/ IsPrefix(before, after)
       \/ /\ pc = "enter"
          /\ op.function_call.mode \in {"auto", "none"}
          /\ resolved' # NULL
          /\ Get(resolved').remove_call
          /\ IsToolCall(messages[Len(messages)])
          /\ popped' # NULL
          /\ Plain(Get(popped')) = before[Len(before)]
          /\ IsPrefix(SubSeq(before, 1, Len(before) - 1), after)
          /\ Len(after) <= Len(before)

\* C15: the conversation is append-only under generate_message,
\* run_until_response and run: every step leaves each existing message at
\* its index and only appends, except a resolution with remove_call = true,
\* which pops exactly the most recent tool-call message and nothing else.
C15_AppendOnly == [][AppendOnlyStepOk]_vars

\* C15 witness: a tool call that run had put into the conversation and
\* executed was later resolved by generate_message and popped, with an
\* earlier message still in place
C15_Witness ==
    /\ popped # NULL
    /\ Get(popped).runs = 2
    /\ messages # <<>>
    /\ messages[1].role = "user"
    /\ pc = "idle"

\* what the resolution of a call to the registered function d does
FoldedByPolicy(d) ==
    LET function_result == Get(resolved')
        call == [messages[Len(messages)] EXCEPT !.runs = @ + 1]
        kept == IF d.remove_call
                THEN SubSeq(messages, 1, Len(messages) - 1)
                ELSE [messages EXCEPT ![Len(messages)] = call]
    IN /\ function_result.name = d.name
       /\ function_result.remove_call = d.remove_call
       /\ function_result.interpret_return_as_response = d.interpret_as_response
       /\ (Content(function_result) # NULL) = d.save_return
       /\ IF ~d.save_return
          THEN messages' = kept
          ELSE /\ Len(messages') = Len(kept) + 1
               /\ SubSeq(messages', 1, Len(kept)) = kept
               /\ Plain(messages'[Len(messages')]) =
                     IF d.interpret_as_response
                     THEN [role |-> "assistant",
                           content |-> Content(function_result),
                           function_call |-> NULL, name |-> NULL]
                     ELSE [role |-> "function",
                           content |-> Content(function_result),
                           function_call |-> NULL, name |-> Some(d.name)]

ResolutionStepOk ==
    (pc = "enter" /\ resolved' # NULL) =>
       \A d \in Registered :
          d.name = Get(messages[Len(messages)].function_call).name =>
             FoldedByPolicy(d)

\* C16: the FunctionResult of a resolution carries the descriptor's name,
\* remove_call and interpret_as_response and has content iff save_return is
\* true; with content and interpret_as_response exactly one assistant
\* message with that content is appended; with content and without
\* interpret_as_response exactly one function-role message with the
\* function's name and that content is appended; without content nothing is.
C16_FoldedByPolicy == [][ResolutionStepOk]_vars

\* C16 witness: a function-role message with the function's name and the
\* result's content follows the tool call it resolves, for a function with
\* the default policy
C16_Witness ==
    /\ resolved # NULL
    /\ ~Get(resolved).remove_call
    /\ ~Get(resolved).interpret_return_as_response
    /\ Len(messages) >= 2
    /\ LastMessage.role = "function"
    /\ LastMessage.name = Some(Get(resolved).name)
    /\ LastMessage.content = Content(Get(resolved))
    /\ IsToolCall(messages[Len(messages) - 1])
    /\ messages[Len(messages) - 1].runs = 1

\* C17: run(name, prompt) appends the prompt when one is given, sends one
\* backend request with the forced function call, executes the returned tool
\* call, and returns the callable's raw return value for every combination
\* of the function's policy flags; it appends no function-result message.
C17_RunReturnsRawValue ==
    (op.name = "run" /\ pc = "idle" /\ outcome.kind = "value") =>
       /\ requests = 1
       /\ Len(messages) = op.start + (IF op.prompt # NULL THEN 2 ELSE 1)
       /\ op.prompt # NULL =>
             Plain(messages[op.start + 1]) = Plain(UserMessage(Get(op.prompt)))
       /\ IsToolCall(LastMessage)
       /\ Get(LastMessage.function_call).name = op.function_call.name
       /\ LastMessage.runs >= 1
       /\ outcome.value = Some(ReturnValue)

(***************************************************************************)
(* Claims about the argument parsers (checked under ParseSpec)             *)
(***************************************************************************)
\* the FunctionWrapper call has been made
Invoked == invocation.kind \in {"called", "raised"}

\* the value given for p when p is the only argument
GivenValue == Get(invocation.arguments).items[1]

OnlyParameterGiven == Get(invocation.arguments).keys = <<"p">>

\* the parser of the type accepts the value
Accepts(type, value) == ParseValue(type, value).raised = NoError

\* C18: union value parsing returns the result of the first alternative, in
\* declaration order, that accepts the value, and fails only if every
\* alternative rejects it.
C18_FirstAcceptingAlternative ==
    (/\ Invoked
     /\ OnlyParameterGiven
     /\ Get(invocation.type).kind = "union") =>
       LET alternatives == Get(invocation.type).args
           accepting == {i \in 1..Len(alternatives) :
                            Accepts(alternatives[i], GivenValue)}
       IN IF accepting = {}
          THEN invocation.kind = "raised"
          ELSE LET first == CHOOSE i \in accepting : \A j \in accepting : i <= j
               IN /\ invocation.kind = "called"
                  /\ invocation.value =
                        Some(<<Get(ParseValue(alternatives[first], GivenValue).value)>>)

RECURSIVE AdmitsBool(_)
\* the type has a boolean somewhere
AdmitsBool(type) ==
    \/ type.kind = "boolean"
    \/ \E i \in 1..Len(type.args) : AdmitsBool(type.args[i])

RECURSIVE HasBool(_)
\* the JSON value is true or false, or holds one
HasBool(value) ==
    \/ value.t = "bool"
    \/ \E i \in 1..Len(value.items) : HasBool(value.items[i])

\* C19: a JSON boolean never parses as the integer type: when the
\* parameter's type has no boolean in it (an integer, a list or mapping or
\* record of integers, a union without a boolean alternative), arguments
\* that hold true or false are rejected and the callable is not called; and
\* no call is made with a boolean for an integer parameter.
C19_BoolNeverInteger ==
    Invoked =>
       /\ (~AdmitsBool(Get(invocation.type)) /\ HasBool(Get(invocation.arguments))) =>
             invocation.kind = "raised"
       /\ (OnlyParameterGiven /\ GivenValue.t = "bool"
             /\ Get(invocation.type) \in {IntType, UnionType(<<IntType, StrType, NoneType>>)}) =>
             /\ invocation.raised = BrokenSchemaError
             /\ invocation.response = Some(GivenValue)
             /\ invocation.schema = Some(IntType)

\* C19 witness: true, as a value of a mapping whose values are a union of
\* number and integer, was rejected by the integer parser
C19_Witness ==
    /\ invocation.kind = "raised"
    /\ invocation.type = Some(DictType(UnionType(<<FloatType, IntType>>)))
    /\ OnlyParameterGiven
    /\ GivenValue = JsonObject(<<"x">>, <<JsonBool("true")>>)
    /\ invocation.raised = BrokenSchemaError
    /\ invocation.response = Some(JsonBool("true"))

\* C20: every argument value that fails validation makes the invocation
\* fail with BrokenSchemaError carrying the offending value and the expected
\* schema, and the callable is not invoked.
C20_MismatchIsBrokenSchema ==
    invocation.kind = "raised" =>
       /\ invocation.raised = BrokenSchemaError
       /\ invocation.response # NULL
       /\ invocation.schema # NULL

(***************************************************************************)
(* Claims about registration and lookup (checked under SetSpec)            *)
(***************************************************************************)
\* what a run_function call made on a BasicFunctionSet itself does
BasicRunStepOk ==
    \A i \in 1..Len(sets), c \in FunctionCalls :
       (sets[i].kind = "basic" /\ RunChild(i, c)) =>
          IF ~Contains(sets[i], c.name)
          THEN /\ last'.raised = FunctionNotFoundError
               /\ last'.ran = <<>>
               /\ last'.result = NULL
          ELSE c.arguments = InvalidArguments =>
                  /\ last'.raised = InvalidJsonError
                  /\ last'.raised \notin {FunctionNotFoundError,
                                         FunctionsFunctionNotFoundError,
                                         BrokenSchemaError, TypeError}
                  /\ last'.ran = <<>>
                  /\ last'.result = NULL

\* C23: run_function on a registered function whose argument string is not
\* valid JSON fails with InvalidJsonError, a kind distinct from the schema
\* mismatch and from function-not-found, and does not invoke the callable;
\* the name is looked up first, so an unknown name fails with
\* function-not-found whatever the argument string is.
C23_InvalidJsonAfterLookup == [][BasicRunStepOk]_vars

\* C23 witness: a call with undecodable arguments to a function registered in
\* a BasicFunctionSet failed with InvalidJsonError
C23_Witness ==
    /\ last.op = "run"
    /\ last.target > 0
    /\ last.sets[last.target].kind = "basic"
    /\ Contains(last.sets[last.target], last.name)
    /\ last.raised = InvalidJsonError
    /\ last.ran = <<>>

\* the names of the functions in the list are pairwise different
UniqueNames(fs) ==
    \A i \in 1..Len(fs), j \in 1..Len(fs) : fs[i].name = fs[j].name => i = j

\* C24: function names are unique within a function set: after any sequence
\* of add_function and remove_function calls on a BasicFunctionSet, no two
\* registered functions have the same name.
C24_NamesUnique ==
    /\ UniqueNames(functions)
    /\ \A i \in 1..Len(sets) : sets[i].kind = "basic" => UniqueNames(sets[i].functions)

\* the target of an operation is a BasicFunctionSet called directly
BasicTarget(ss, target) == target > 0 /\ ss[target].kind = "basic"

\* what add_function, remove_function and run_function do to the list of a
\* BasicFunctionSet and to its functions_schema
RegistryStepOk ==
    LET t == last'.target
        before == IF t = 0 THEN functions ELSE sets[t].functions
        after == IF t = 0 THEN functions' ELSE sets'[t].functions
    IN  (t = 0 \/ sets[t].kind = "basic") =>
           /\ last'.op = "add" =>
                 /\ Len(after) = Len(before) + 1
                 /\ after[Len(after)].name = last'.name
                 /\ after[Len(after)].uid = nextUid
                 /\ BasicFunctionsSchema(after) =
                       BasicFunctionsSchema(before) \o <<FunctionSchema(after[Len(after)])>>
           /\ last'.op = "remove" =>
                 /\ BasicFunctionsSchema(after) =
                       SelectSeq(BasicFunctionsSchema(before),
                                 LAMBDA s : s.name # last'.name)
                 /\ after = SelectSeq(before, LAMBDA f : f.name # last'.name)
                 /\ t > 0 =>
                       \A a \in Arguments :
                          LET o == BasicRunFunction(sets'[t], FunctionCall(last'.name, a))
                          IN  o.raised = FunctionNotFoundError /\ o.ran = <<>>
           /\ last'.op = "run" =>
                 /\ after = before
                 /\ (t > 0 /\ last'.raised = NoError) =>
                       \E i \in 1..Len(before) :
                          /\ before[i].name = last'.name
                          /\ last'.ran = <<before[i].uid>>
                          /\ \A j \in 1..Len(before) :
                                before[j].name = last'.name => before[i].uid <= before[j].uid

\* the schemas are those of the registered functions, in the order of
\* registration (uids are given out in that order)
InRegistrationOrder(fs) ==
    /\ Len(BasicFunctionsSchema(fs)) = Len(fs)
    /\ \A i \in 1..Len(fs) :
          /\ BasicFunctionsSchema(fs)[i].name = fs[i].name
          /\ BasicFunctionsSchema(fs)[i].fn = fs[i].uid
          /\ \A j \in 1..Len(fs) : i < j => fs[i].uid < fs[j].uid

OtherFunctionsSchema(ss) == UnionFunctionsSchema(ss, <<>>)

\* the names a call from the second Conversation would run a function for
OtherCallable(ss) ==
    {n \in CallNames :
        UnionRunFunction(ss, <<>>, FunctionCall(n, ValidArguments)).raised = NoError}

\* C26: Conversations that share the same function set object are
\* independent: no engine step of one Conversation changes the
\* functions_schema, or the set of functions callable, that another
\* Conversation observes, a shared TogglableSet that the first Conversation
\* enables included.
C26_SharingIsIndependent ==
    [][/\ OtherFunctionsSchema(sets') = OtherFunctionsSchema(sets)
       /\ OtherCallable(sets') = OtherCallable(sets)]_vars

\* the value is an object with every field of the dataclass but those whose
\* declared default is of one of the optional kinds, and with no field the
\* dataclass does not declare
WellFormedRecord(type, value, optional) ==
    /\ value.t = "dict"
    /\ \A i \in 1..Len(type.names) :
          type.defaults[i].kind \notin optional =>
             IndexOf(value.keys, type.names[i]) # 0
    /\ \A k \in 1..Len(value.keys) : IndexOf(type.names, value.keys[k]) # 0

\* the parser of each field the value has accepts what the value gives for it
FieldsAccepted(type, value) ==
    \A i \in 1..Len(type.names) :
       IndexOf(value.keys, type.names[i]) # 0 =>
          Accepts(type.args[i], value.items[IndexOf(value.keys, type.names[i])])

\* the invocation gave p, a dataclass, the value; the fields with a default
\* of one of the optional kinds may be left out
RecordAcceptance(optional) ==
    (/\ Invoked
     /\ OnlyParameterGiven
     /\ Get(invocation.type).kind = "dataclass") =>
       LET type == Get(invocation.type)
           value == GivenValue
       IN /\ invocation.kind = "called" <=>
                /\ WellFormedRecord(type, value, optional)
                /\ FieldsAccepted(type, value)
          /\ invocation.kind = "called" =>
                LET made == Get(invocation.value)[1] IN
                /\ made.keys = type.names
                /\ \A i \in 1..Len(type.names) :
                      LET k == IndexOf(value.keys, type.names[i]) IN
                      IF k # 0
                      THEN ParseValue(type.args[i], value.items[k]) = Parsed(made.items[i])
                      ELSE /\ type.defaults[i].kind # "missing"
                           /\ made.items[i] = Get(type.defaults[i].value)

\* the ways a field is declared with a default: a default value, or a
\* default factory
DeclaredDefaults == {"default", "default_factory"}

\* C29: the record parser accepts a value iff it is an object that contains
\* every field declared without a default and no field the record does not
\* declare; fields with defaults may be omitted and then take their
\* defaults; each present field is parsed recursively with its own field
\* type, and a failing field fails the whole record.
C29_RecordAcceptance == RecordAcceptance(DeclaredDefaults)

RECURSIVE HoldsUnparseable(_)
\* no parser can parse the type, or a type nested in it
HoldsUnparseable(type) ==
    \/ ~CanParse(type)
    \/ \E i \in 1..Len(type.args) : HoldsUnparseable(type.args[i])

\* C21: deriving the schema of a function fails with CannotParseTypeError,
\* naming the type, whenever a parameter's type has no matching parser, and
\* equally when the unparseable type is nested inside a record field, a list
\* element, a mapping value or a union alternative.
C21_CannotParseNamesType ==
    invocation.kind \in {"schema", "underivable"} =>
       IF HoldsUnparseable(Get(invocation.type))
       THEN /\ invocation.kind = "underivable"
            /\ invocation.raised = CannotParseTypeError
            /\ invocation.response = Some(ObjectType)
       ELSE invocation.kind = "schema"

(***************************************************************************)
(* Claims about registration in full (checked under RegSpec)               *)
(***************************************************************************)
\* the callable has a parameter whose annotation no parser can parse
HasUnparseableParameter(func) ==
    \E i \in 1..Len(func.types) : ~CanParse(func.types[i])

\* C22: registering a callable that has a parameter with no matching parser
\* fails immediately at registration (add_function, FunctionWrapper
\* construction); the failure is not deferred to a later schema access or to
\* the first invocation, and the function is not left in the set.
C22_FailsAtRegistration ==
    /\ (last.op = "add" /\ HasUnparseableParameter(Get(last.result))) =>
          /\ last.raised = CannotParseTypeError
          /\ functions = last.functions
    /\ \A i \in 1..Len(functions) : ~HasUnparseableParameter(functions[i].func)
    /\ last.op \in {"schema", "run"} => last.raised # CannotParseTypeError

\* C27: a name or description override given at registration takes
\* precedence over the value derived from the callable: the schema's name is
\* the override name if given, else the callable's own name, and the
\* schema's description is the override description if given, else the
\* callable's short documentation (left out when neither exists).
C27_OverridesTakePrecedence ==
    (last.op = "schema" /\ last.raised = NoError) =>
       \A i \in 1..Len(functions) :
          LET function == functions[i]
              schema == Get(last.result)[i]
          IN /\ schema.name = IF function._name # NULL THEN Get(function._name)
                              ELSE function.func.__name__
             /\ schema.description = IF function._description # NULL
                                     THEN function._description
                                     ELSE function.func.__doc__

\* remove_function was called with a callable that add_function had returned
\* for a function then in the set
RemovedByHandle ==
    /\ last.op = "remove"
    /\ Get(last.result).is = "callable"
    /\ \E i \in 1..Len(last.functions) :
          last.functions[i].func = Get(last.result).function

\* C28: removing by handle removes what was registered with that handle:
\* after h = add_function(callable, name=N, ...) the call remove_function(h)
\* removes the function registered under N (it is no longer in
\* functions_schema and calling N signals function-not-found) and removes no
\* function that was registered from a different callable.
C28_RemoveByHandle ==
    RemovedByHandle =>
       LET h == Get(last.result).function IN
       /\ \A i \in 1..Len(functions) : functions[i].func # h
       /\ \A i \in 1..Len(last.functions) :
             LET function == last.functions[i] IN
             IF function.func = h
             THEN (\A j \in 1..Len(last.functions) :
                      last.functions[j].name = function.name =>
                         last.functions[j].func = h) =>
                     /\ \A a \in {AddArguments, InvalidArguments} :
                           RunFunction(functions, FunctionCall(function.name, a)).raised
                              = FunctionNotFoundError
                     /\ FunctionsSchema(functions).raised = NoError =>
                           \A k \in 1..Len(functions) :
                              Get(FunctionsSchema(functions).schema)[k].name
                                 # function.name
             ELSE \E k \in 1..Len(functions) : functions[k] = function

\* the schema of an int parameter
IntegerSchema == SchemaNode("integer", "", <<>>, <<>>, <<>>)

\* what a run_function call with the arguments {"a":1,"b":2} does when the
\* function found for the name wraps add
AddStepOk ==
    \A c \in RegCalls :
       (/\ RunRegistered(c)
        /\ c.arguments = AddArguments
        /\ FindFunction(functions, c.name) # 0
        /\ functions[FindFunction(functions, c.name)].func = add) =>
          LET function == functions[FindFunction(functions, c.name)]
              parsed == ParseArguments(add.names, add.types,
                                       Get(JsonLoads(c.arguments).value))
          IN /\ parsed.raised = NoError
             /\ Get(parsed.value) = <<JsonInt("1"), JsonInt("2")>>
             /\ last'.raised = NoError
             /\ last'.ran = <<function.uid>>
             /\ Get(last'.result).name = c.name
             /\ Get(Get(last'.result).raw_result).result = JsonInt("3")
             /\ SerializedValue(Get(Get(last'.result).raw_result)) = "3"

\* C30: scenario A: for a registered add(a: int, b: int) the derived schema
\* has the properties a and b of type integer and required = [a, b] (a
\* parameter is listed as required iff it has no default), and running the
\* function with the argument string {"a":1,"b":2} calls it with a = 1,
\* b = 2 and yields 3 (serialized content "3").
C30_ScenarioA ==
    /\ []((last.op = "schema" /\ last.raised = NoError) =>
             \A i \in 1..Len(functions) :
                LET func == functions[i].func
                    parameters == Get(last.result)[i].parameters
                IN /\ parameters.names = func.names
                   /\ \A k \in 1..Len(func.names) :
                         (\E r \in 1..Len(parameters.required) :
                             parameters.required[r] = func.names[k])
                            <=> ~func.defaults[k]
                   /\ func = add =>
                         /\ parameters.names = <<"a", "b">>
                         /\ parameters.sub = <<IntegerSchema, IntegerSchema>>
                         /\ parameters.required = <<"a", "b">>)
    /\ [][AddStepOk]_vars

\* C30 witness: add and sub are registered, the schema was read, and add was
\* run with {"a":1,"b":2}, which gave 3
C30_Witness ==
    /\ last.op = "run"
    /\ last.name = "add"
    /\ last.raised = NoError
    /\ Get(Get(last.result).raw_result).result = JsonInt("3")
    /\ \E i, j \in 1..Len(functions) :
          /\ functions[i].func = add /\ functions[i].name = "add"
          /\ functions[j].func = sub
          /\ FunctionsSchema(functions).raised = NoError
          /\ Get(FunctionsSchema(functions).schema)[i].parameters.required = <<"a", "b">>
          /\ Get(FunctionsSchema(functions).schema)[j].parameters.required = <<"a">>

(***************************************************************************)
(* Claims about failures of the engine (checked under FailSpec, Spec and   *)
(* RetrySpec)                                                              *)
(***************************************************************************)
\* generate_message raised while it resolved the pending tool call
ResolutionFailed ==
    /\ pc = "enter"
    /\ pc' = "idle"
    /\ outcome'.kind = "raised"
    /\ outcome'.error \in {FunctionNotFoundError, InvalidJsonError, BrokenSchemaError,
                           NonSerializableOutputError}

\* C31: if resolving the pending tool call raises (function not found,
\* invalid JSON, schema mismatch, a result json.dumps rejects under
\* serialize = true), the messages after the failed generate_message call
\* are the messages before it, whatever the policy flags of the function.
C31_FailedResolutionKeepsMessages ==
    [][ResolutionFailed => PlainMessages(messages') = PlainMessages(messages)]_vars

\* C32: run followed by run_until_response, as natural_language_annotated
\* calls them, executes the function of the forced tool call exactly once:
\* no tool call is ever executed more than once, and when run_until_response
\* has returned every tool call still in the conversation was executed once.
C32_ForcedCallRunsOnce ==
    /\ \A i \in 1..Len(messages) :
          IsToolCall(messages[i]) => messages[i].runs <= 1
    /\ popped # NULL => Get(popped).runs <= 1
    /\ (op.name = "run_until_response" /\ pc = "idle" /\ outcome.kind = "returned") =>
          \A i \in 1..Len(messages) :
             IsToolCall(messages[i]) => messages[i].runs = 1

\* the argument object has every name the schema requires and no name the
\* schema does not have
SatisfiesNames(parameters, arguments) ==
    /\ \A r \in 1..Len(parameters.required) :
          IndexOf(arguments.keys, parameters.required[r]) # 0
    /\ \A k \in 1..Len(arguments.keys) :
          IndexOf(parameters.names, arguments.keys[k]) # 0

\* what a run_function call does when the name is found, the arguments are
\* a JSON object and the schema of the function can be derived
OptionalStepOk ==
    \A c \in RegCalls :
       (/\ RunRegistered(c)
        /\ FindFunction(functions, c.name) # 0
        /\ JsonLoads(c.arguments).raised = NoError
        /\ Schema(functions[FindFunction(functions, c.name)]).raised = NoError) =>
          LET function == functions[FindFunction(functions, c.name)]
              parameters == Get(Schema(function).schema).parameters
              arguments == Get(JsonLoads(c.arguments).value)
          IN IF SatisfiesNames(parameters, arguments)
             THEN /\ last'.raised = NoError
                  /\ last'.ran = <<function.uid>>
             ELSE last'.raised = BrokenSchemaError

\* C33: schema and invocation agree on optional parameters: an argument
\* object that has every name the derived schema requires and no unknown
\* name (parameters with defaults may be omitted) is accepted and the
\* callable is called; an argument object with an unknown name or without a
\* required name is rejected with BrokenSchemaError.
C33_SchemaAgreesWithInvocation == [][OptionalStepOk]_vars

\* the number of sources of the UnionSkillSet (the local set and the child
\* sets) in which the name is registered
SourcesWith(ss, fs, name) ==
    Cardinality({i \in 1..Len(ss) : Contains(ss[i], name)})
    + (IF FindFunction(fs, name) # 0 THEN 1 ELSE 0)

\* the index of the first schema of functions_schema with the name, 0 when
\* there is none
FirstSchema(schemas, name) ==
    IF \E i \in 1..Len(schemas) : schemas[i].name = name
    THEN CHOOSE i \in 1..Len(schemas) :
            /\ schemas[i].name = name
            /\ \A j \in 1..(i - 1) : schemas[j].name # name
    ELSE 0

\* C34: schema order and invocation precedence of a UnionSkillSet agree: for
\* a name registered in more than one source, the function run_function
\* invokes is the one whose schema comes first in functions_schema.
C34_SchemaOrderIsPrecedence ==
    (/\ UnionRan
     /\ last.ran # <<>>
     /\ SourcesWith(last.sets, last.functions, last.name) > 1) =>
        LET schemas == UnionFunctionsSchema(last.sets, last.functions)
            first == FirstSchema(schemas, last.name)
        IN /\ first # 0
           /\ schemas[first].fn = last.ran[1]

(***************************************************************************)
(* Claims about the requests of generate_message (checked under Spec and   *)
(* RetrySpec)                                                              *)
(***************************************************************************)
\* a generate_message call with a forced call-mode is in progress, or was
\* the last operation
ForcedCall == op.name = "generate_message" /\ op.function_call.mode = "forced"

\* how often each message's tool call was executed
Runs(ms) == [i \in 1..Len(ms) |-> ms[i].runs]

\* a step of a generate_message call with a forced call-mode: up to the
\* request it changes no message, executes nothing and resolves nothing;
\* the request either fails and changes no message, or succeeds, and then
\* the reply is appended and returned
ForcedStepOk ==
    (ForcedCall /\ pc # "idle") =>
       /\ sets' = sets
       /\ resolved' = NULL
       /\ popped' = NULL
       /\ pc = "enter" =>
             /\ pc' = "request"
             /\ PlainMessages(messages') = PlainMessages(messages)
             /\ Runs(messages') = Runs(messages)
       /\ pc = "request" =>
             /\ requests' = requests + 1
             /\ \/ messages' = messages
                \/ \E m \in BackendReplies(op.function_call) :
                      /\ messages' = Append(messages, m)
                      /\ outcome' = Returned(m)
                      /\ pc' = "idle"

Request ==
    [messages |-> PlainMessages(messages),
     functions |-> UnionFunctionsSchema(sets, functions),
     function_call |-> op.function_call]

\* a backend request either fails, and then no message, function or set
\* changes and the request that follows, if any, is the same request; or it
\* succeeds, and then the reply is appended and no further request of this
\* generate_message call follows
RequestStepOk ==
    pc = "request" =>
       /\ requests' = requests + 1
       /\ \/ /\ messages' = messages
             /\ Request' = Request
             /\ \/ pc' = "request"
                \/ pc' = "idle" /\ outcome' = Raised(RateLimitError)
          \/ /\ \E m \in BackendReplies(op.function_call) :
                   messages' = Append(messages, m)
             /\ pc' # "request"
             /\ sets' = sets
             /\ functions' = functions

\* C36: a rate-limited backend call does not change the conversation: every
\* retry sends the same request (history, schema, call-mode), a failure that
\* is re-raised leaves the messages as they were, and a reply is appended
\* once, by the request that succeeds.
C36_RateLimitKeepsConversation ==
    /\ [][RequestStepOk]_vars
    /\ [][messages' # messages => pc # "request" \/ pc' # "request"]_vars

\* C36 witness: a call slept once, sent a second request, and the failure
\* was re-raised with the messages in place
C36_Witness ==
    /\ pc = "idle"
    /\ outcome = Raised(RateLimitError)
    /\ sleeps = 1
    /\ requests = 2
    /\ messages # <<>>

(***************************************************************************)
(* Claims about termination (checked under ResponseSpec and LoopSpec)      *)
(***************************************************************************)
\* run_until_response(allow_function_calls=False) is in progress, or was
\* the last operation
ResponseCall == op.name = "run_until_response" /\ op.function_call.mode = "none"

\* the history ends with a tool call to the existing function f with valid
\* arguments that was not executed yet
PendingValidCall ==
    /\ messages # <<>>
    /\ IsToolCall(LastMessage)
    /\ Get(LastMessage.function_call) = FunctionCall("f", ValidArguments)
    /\ LastMessage.runs = 0

\* the last message is not a tool call
NothingPending == messages = <<>> \/ ~IsToolCall(LastMessage)

\* a step of run_until_response(False): the first step executes the pending
\* tool call once and then either goes on to the request or leaves no tool
\* call pending; with no tool call pending generate_message executes
\* nothing and goes on to the request; the request is the first of its
\* generate_message call, executes nothing, and its answer ends the call
ResponseStepOk ==
    (ResponseCall /\ pc # "idle") =>
       /\ (pc = "enter" /\ PendingValidCall) =>
             /\ resolved' # NULL
             /\ IF popped' # NULL
                THEN /\ Get(popped').runs = 1
                     /\ \A i \in 1..Len(messages') :
                           messages'[i].runs = IF i < Len(messages)
                                               THEN messages[i].runs ELSE 0
                ELSE /\ Len(messages') >= Len(messages)
                     /\ \A i \in 1..Len(messages') :
                           messages'[i].runs = IF i < Len(messages) THEN messages[i].runs
                                               ELSE IF i = Len(messages) THEN 1 ELSE 0
             /\ \/ pc' = "request"
                \/ messages' = <<>>
                \/ ~IsToolCall(messages'[Len(messages')])
       /\ (pc = "enter" /\ NothingPending) =>
             /\ resolved' = NULL
             /\ pc' = "request"
             /\ Runs(messages') = Runs(messages)
       /\ pc = "request" =>
             /\ requests = 0
             /\ requests' = 1
             /\ pc' = "idle"
             /\ outcome'.kind = "returned"
             /\ Runs(messages') = Append(Runs(messages), 0)

\* C37: from a history whose last message is an unresolved tool call to an
\* existing function with valid arguments, run_until_response(False)
\* terminates, having executed that tool once and sent at most one backend
\* request, for every combination of save_return, remove_call and
\* interpret_as_response, with a backend that answers every request.
C37_ResponseTerminates ==
    /\ [][ResponseStepOk]_vars
    /\ (ResponseCall /\ pc = "enter" /\ PendingValidCall
                     /\ Len(messages) + 2 <= MaxMessages)
          ~> (ResponseCall /\ pc = "idle" /\ outcome.kind = "returned")

\* C37 witness: run_until_response(False) has returned the answer of the
\* backend; the tool call was executed once and its result was added
C37_Witness ==
    /\ ResponseCall
    /\ pc = "idle"
    /\ outcome.kind = "returned"
    /\ requests = 1
    /\ Len(messages) = 3
    /\ IsToolCall(messages[1])
    /\ messages[1].runs = 1
    /\ messages[2].role = "function"
    /\ messages[3] = FinalResponseMessage(Answer)

\* run_until_response is in progress, or was the last operation
LoopCall == op.name = "run_until_response"

\* the bounds of the model leave no room for the next step of the engine
OutOfRoom ==
    \/ pc = "request" /\ Len(messages) >= MaxMessages
    \/ pc = "enter" /\ ~ENABLED Enter

\* a step of run_until_response.  A generate_message call executes at most
\* one tool call, the last message; with no tool call pending it executes
\* nothing and goes on to the request; it comes back to the loop without a
\* request only after an execution that left no tool call pending, so that
\* the next call goes on to the request.  A request executes nothing, and
\* its answer, when it is a contentful assistant message, ends the call.
LoopStepOk ==
    (LoopCall /\ pc # "idle") =>
       /\ pc = "enter" =>
             /\ IF resolved' = NULL
                THEN Runs(messages') = Runs(messages)
                ELSE IF popped' # NULL
                THEN /\ Get(popped').runs = LastMessage.runs + 1
                     /\ \A i \in 1..Len(messages') :
                           messages'[i].runs = IF i < Len(messages)
                                               THEN messages[i].runs ELSE 0
                ELSE /\ Len(messages') >= Len(messages)
                     /\ \A i \in 1..Len(messages') :
                           messages'[i].runs =
                              IF i < Len(messages) THEN messages[i].runs
                              ELSE IF i = Len(messages) THEN messages[i].runs + 1
                              ELSE 0
             /\ NothingPending => resolved' = NULL /\ pc' = "request"
             /\ pc' = "enter" =>
                   /\ resolved' # NULL
                   /\ messages' = <<>> \/ ~IsToolCall(messages'[Len(messages')])
       /\ pc = "request" =>
             /\ requests' = requests + 1
             /\ Runs(messages') = Append(Runs(messages), 0)
             /\ IsFinalResponse(messages'[Len(messages')]) =>
                   /\ pc' = "idle"
                   /\ outcome' = Returned(messages'[Len(messages')])

\* C38: run_until_response never loops without contacting the backend:
\* between two consecutive backend requests at most one tool call is
\* executed, also for a function with save_return=False whose tool call
\* stays in the history, and the call terminates when the backend
\* eventually answers with a contentful assistant message.
C38_LoopContactsBackend ==
    /\ [][LoopStepOk]_vars
    /\ (LoopCall /\ pc # "idle") ~> (pc = "idle" \/ OutOfRoom)

\* C38 witness: f does not save its return and keeps its call; the backend
\* asked for f, the call was executed once and stayed in the history, the
\* next request was answered, and run_until_response returned the answer
C38_Witness ==
    /\ LoopCall
    /\ pc = "idle"
    /\ outcome = Returned(FinalResponseMessage(Answer))
    /\ ~functions[1].save_return
    /\ ~functions[1].remove_call
    /\ Len(messages) = 2
    /\ IsToolCall(messages[1])
    /\ Get(messages[1].function_call) = FunctionCall("f", ValidArguments)
    /\ messages[1].runs = 1
    /\ PlainMessages(<<messages[2]>>) = PlainMessages(<<FinalResponseMessage(Answer)>>)

====
